---- MODULE Spec2Model ----
(***************************************************************************)
(* A model of safe-expr-eval: the Tokenizer (src/src/tokenizer.ts), the    *)
(* ExpressionEvaluator with the standalone evaluate/compile helpers and    *)
(* the Parser facade (src/src/parser.ts).                                  *)
(*                                                                         *)
(* Text is a sequence of one-character strings.  A JavaScript value is a   *)
(* record of one fixed shape (see Value below); a Number is an exact       *)
(* sign/magnitude rational extended with the IEEE-754 specials NaN,        *)
(* +Infinity, -Infinity and a signed zero (rounding is not modelled).      *)
(***************************************************************************)
EXTENDS Integers, Sequences, FiniteSets, TLC

(***************************************************************************)
(* Characters                                                              *)
(***************************************************************************)
Digits == {"0", "1", "2", "3", "4", "5", "6", "7", "8", "9"}

Letters ==
  {"a", "b", "c", "d", "e", "f", "g", "h", "i", "j", "k", "l", "m",
   "n", "o", "p", "q", "r", "s", "t", "u", "v", "w", "x", "y", "z",
   "A", "B", "C", "D", "E", "F", "G", "H", "I", "J", "K", "L", "M",
   "N", "O", "P", "Q", "R", "S", "T", "U", "V", "W", "X", "Y", "Z"}

\* /\s/
IsSpace(c) == c \in {" ", "\t", "\n", "\r"}

\* /[0-9]/
IsDigit(c) == c \in Digits

\* /[0-9.]/
IsNumberChar(c) == c \in Digits \cup {"."}

\* /[a-zA-Z_]/
IsIdentStart(c) == c \in Letters \cup {"_"}

\* /[a-zA-Z0-9_.]/
IsIdentChar(c) == c \in Letters \cup Digits \cup {"_", "."}

\* /[+\-*/%<>=!]/
IsOperatorChar(c) == c \in {"+", "-", "*", "/", "%", "<", ">", "=", "!"}

DigitVal(c) ==
  CASE c = "0" -> 0 [] c = "1" -> 1 [] c = "2" -> 2 [] c = "3" -> 3
    [] c = "4" -> 4 [] c = "5" -> 5 [] c = "6" -> 6 [] c = "7" -> 7
    [] c = "8" -> 8 [] c = "9" -> 9

(***************************************************************************)
(* Values.  t is the typeof-class of the value:                            *)
(*   "number"   sg * m / d; d = 0 /\ m = 1 is Infinity, d = 0 /\ m = 0 NaN *)
(*   "string"   str                                                        *)
(*   "boolean"  b                                                          *)
(*   "object"   id names the object; a wrapper object made by Object(x)    *)
(*              has id "Number", "String" or "Boolean" and carries x       *)
(*   "function" id names the function object                               *)
(***************************************************************************)
Value(t, sg, m, d, str, b, id) ==
  [t |-> t, sg |-> sg, m |-> m, d |-> d, str |-> str, b |-> b, id |-> id]

RECURSIVE GCD(_, _)
GCD(a, b) == IF b = 0 THEN a ELSE GCD(b, a % b)

Reduced(sg, m, d, g) == Value("number", sg, m \div g, d \div g, <<>>, FALSE, "")

\* The number sg * m / d in lowest terms: 0 / 0 is NaN, m / 0 is an
\* infinity, 0 / d a zero of the sign sg.
Num(sg, m, d) ==
  IF m = 0 /\ d = 0 THEN Value("number", 1, 0, 0, <<>>, FALSE, "")
  ELSE Reduced(sg, m, d, GCD(m, d))

Int2Num(i) == IF i < 0 THEN Num(-1, -i, 1) ELSE Num(1, i, 1)
NaN == Num(1, 0, 0)
Infinity == Num(1, 1, 0)
Str(s) == Value("string", 1, 0, 1, s, FALSE, "")
Bool(b) == Value("boolean", 1, 0, 1, <<>>, b, "")
Obj(id) == Value("object", 1, 0, 1, <<>>, FALSE, id)
Fun(id) == Value("function", 1, 0, 1, <<>>, FALSE, id)
Undefined == Value("undefined", 1, 0, 1, <<>>, FALSE, "")

IsNaN(x) == x.m = 0 /\ x.d = 0
IsInf(x) == x.m = 1 /\ x.d = 0
IsZero(x) == x.m = 0 /\ x.d = 1

(***************************************************************************)
(* IEEE-754 arithmetic on exact rationals                                  *)
(***************************************************************************)
Neg(x) == IF IsNaN(x) THEN x ELSE [x EXCEPT !.sg = -x.sg]

\* The finite sum n / d, n an integer; bothNegative decides the sign of a zero.
SignedRatio(n, d, bothNegative) ==
  IF n = 0 THEN Num(IF bothNegative THEN -1 ELSE 1, 0, 1)
  ELSE IF n < 0 THEN Num(-1, -n, d)
  ELSE Num(1, n, d)

NumAdd(x, y) ==
  CASE IsNaN(x) \/ IsNaN(y) -> NaN
    [] IsInf(x) /\ IsInf(y) -> IF x.sg = y.sg THEN x ELSE NaN
    [] IsInf(x) -> x
    [] IsInf(y) -> y
    [] OTHER -> SignedRatio(x.sg * x.m * y.d + y.sg * y.m * x.d, x.d * y.d,
                            x.sg = -1 /\ y.sg = -1)

NumSub(x, y) == NumAdd(x, Neg(y))

NumMul(x, y) ==
  IF IsNaN(x) \/ IsNaN(y) THEN NaN ELSE Num(x.sg * y.sg, x.m * y.m, x.d * y.d)

NumDiv(x, y) ==
  IF IsNaN(x) \/ IsNaN(y) THEN NaN ELSE Num(x.sg * y.sg, x.m * y.d, x.d * y.m)

\* The remainder takes the sign of the dividend.
NumMod(x, y) ==
  CASE IsNaN(x) \/ IsNaN(y) \/ IsInf(x) \/ IsZero(y) -> NaN
    [] IsInf(y) -> x
    [] OTHER -> Num(x.sg, (x.m * y.d) % (y.m * x.d), x.d * y.d)

\* x < y on Numbers; every comparison with NaN is false, -0 equals +0.
NumLt(x, y) ==
  CASE IsNaN(x) \/ IsNaN(y) -> FALSE
    [] IsInf(x) /\ IsInf(y) -> x.sg < y.sg
    [] IsInf(x) -> x.sg = -1
    [] IsInf(y) -> y.sg = 1
    [] OTHER -> x.sg * x.m * y.d < y.sg * y.m * x.d

NumEq(x, y) ==
  CASE IsNaN(x) \/ IsNaN(y) -> FALSE
    [] IsZero(x) /\ IsZero(y) -> TRUE
    [] OTHER -> x.sg = y.sg /\ x.m = y.m /\ x.d = y.d

(***************************************************************************)
(* String to Number conversions of the JavaScript runtime                  *)
(***************************************************************************)
RECURSIVE DigitRun(_, _)
\* The number of consecutive digits of s from index i on.
DigitRun(s, i) ==
  IF i <= Len(s) /\ IsDigit(s[i]) THEN 1 + DigitRun(s, i + 1) ELSE 0

RECURSIVE DigitsVal(_, _, _)
\* The value of the n digits of s that start at index i.
DigitsVal(s, i, n) ==
  IF n = 0 THEN 0 ELSE DigitsVal(s, i, n - 1) * 10 + DigitVal(s[i + n - 1])

RECURSIVE Pow10(_)
Pow10(k) == IF k = 0 THEN 1 ELSE 10 * Pow10(k - 1)

RECURSIVE SpaceRun(_, _)
SpaceRun(s, i) ==
  IF i <= Len(s) /\ IsSpace(s[i]) THEN 1 + SpaceRun(s, i + 1) ELSE 0

RECURSIVE SpaceRunBack(_, _)
SpaceRunBack(s, i) ==
  IF i >= 1 /\ IsSpace(s[i]) THEN 1 + SpaceRunBack(s, i - 1) ELSE 0

TrimFrom(s, lead) ==
  IF lead = Len(s) THEN <<>> ELSE SubSeq(s, lead + 1, Len(s) - SpaceRunBack(s, Len(s)))

\* String.prototype.trim
trim(s) == TrimFrom(s, SpaceRun(s, 1))

IsPrefixAt(p, s, i) ==
  /\ i + Len(p) - 1 <= Len(s)
  /\ \A k \in 1..Len(p) : s[i + k - 1] = p[k]

InfinityText == <<"I", "n", "f", "i", "n", "i", "t", "y">>

NoLiteral == [len |-> 0, m |-> 0, d |-> 1]

\* The exponent digits start at index k and are ne many; skip counts the
\* "e" and the sign before them.
DecimalScaled(s, k, ne, eneg, skip, mantLen, m0, d0) ==
  IF ne = 0 THEN [len |-> mantLen, m |-> m0, d |-> d0]
  ELSE [len |-> mantLen + skip + ne,
        m |-> IF eneg THEN m0 ELSE m0 * Pow10(DigitsVal(s, k, ne)),
        d |-> IF eneg THEN d0 * Pow10(DigitsVal(s, k, ne)) ELSE d0]

\* The mantissa ends before index j
DecimalExponent(s, j, mantLen, m0, d0) ==
  IF j <= Len(s) /\ s[j] \in {"e", "E"}
  THEN IF j + 1 <= Len(s) /\ s[j + 1] \in {"+", "-"}
       THEN DecimalScaled(s, j + 2, DigitRun(s, j + 2), s[j + 1] = "-", 2, mantLen, m0, d0)
       ELSE DecimalScaled(s, j + 1, DigitRun(s, j + 1), FALSE, 1, mantLen, m0, d0)
  ELSE [len |-> mantLen, m |-> m0, d |-> d0]

\* ni integer digits at index i, then dot (0 or 1) dots and nf fraction digits
DecimalMantissa(s, i, ni, dot, nf) ==
  IF ni + nf = 0 THEN NoLiteral
  ELSE DecimalExponent(s, i + ni + dot + nf, ni + dot + nf,
                       DigitsVal(s, i, ni) * Pow10(nf) + DigitsVal(s, i + ni + 1, nf),
                       Pow10(nf))

DecimalFraction(s, i, ni) ==
  IF i + ni <= Len(s) /\ s[i + ni] = "."
  THEN DecimalMantissa(s, i, ni, 1, DigitRun(s, i + ni + 1))
  ELSE DecimalMantissa(s, i, ni, 0, 0)

\* The longest unsigned decimal literal (digits, optional fraction, optional
\* exponent) that starts at index i of s: its length (0 when there is none)
\* and its value m / d.
DecimalPrefix(s, i) == DecimalFraction(s, i, DigitRun(s, i))

PrefixValue(p, sg) == IF p.len = 0 THEN NaN ELSE Num(sg, p.m, p.d)

ParseFloatUnsigned(s, i, sg) ==
  IF IsPrefixAt(InfinityText, s, i) THEN Num(sg, 1, 0)
  ELSE PrefixValue(DecimalPrefix(s, i), sg)

ParseFloatAt(s, i) ==
  IF i <= Len(s) /\ s[i] = "-" THEN ParseFloatUnsigned(s, i + 1, -1)
  ELSE IF i <= Len(s) /\ s[i] = "+" THEN ParseFloatUnsigned(s, i + 1, 1)
  ELSE ParseFloatUnsigned(s, i, 1)

\* The global parseFloat: leading white space is skipped, then the longest
\* prefix that is a signed decimal literal is converted; NaN when none.
parseFloat(s) == ParseFloatAt(s, 1 + SpaceRun(s, 1))

WholeValue(t, i, p, sg) ==
  IF p.len = 0 \/ i + p.len - 1 # Len(t) THEN NaN ELSE Num(sg, p.m, p.d)

NumberUnsigned(t, i, sg) ==
  IF IsPrefixAt(InfinityText, t, i) /\ Len(t) = i + 7 THEN Num(sg, 1, 0)
  ELSE WholeValue(t, i, DecimalPrefix(t, i), sg)

NumberOfTrimmed(t) ==
  IF Len(t) = 0 THEN Num(1, 0, 1)
  ELSE IF t[1] = "-" THEN NumberUnsigned(t, 2, -1)
  ELSE IF t[1] = "+" THEN NumberUnsigned(t, 2, 1)
  ELSE NumberUnsigned(t, 1, 1)

\* ToNumber applied to a String (as loose equality and Math.max do): the whole
\* trimmed text must be a numeric literal; the empty text is 0.  Hexadecimal,
\* octal and binary literals are outside the character set of the inputs.
StringToNumber(s) == NumberOfTrimmed(trim(s))

(***************************************************************************)
(* Tokenizer (src/src/tokenizer.ts)                                        *)
(***************************************************************************)
\* currentChar / peek at the end of the input
null == ""

Token(type, value, position) ==
  [type |-> type, value |-> value, position |-> position]

\* constructor(input): position counts from 0 as in the source.
Tokenizer(input) == [input |-> trim(input), position |-> 0]

currentChar(tk) ==
  IF tk.position < Len(tk.input) THEN tk.input[tk.position + 1] ELSE null

advance(tk) == [tk EXCEPT !.position = @ + 1]

peek(tk, offset) ==
  IF tk.position + offset < Len(tk.input) THEN tk.input[tk.position + offset + 1] ELSE null

RECURSIVE skipWhitespace(_)
skipWhitespace(tk) ==
  IF currentChar(tk) # null /\ IsSpace(currentChar(tk))
  THEN skipWhitespace(advance(tk))
  ELSE tk

RECURSIVE numberLoop(_, _)
numberLoop(tk, numStr) ==
  IF currentChar(tk) # null /\ IsNumberChar(currentChar(tk))
  THEN numberLoop(advance(tk), Append(numStr, currentChar(tk)))
  ELSE [tk |-> tk, text |-> numStr]

\* A scanning method returns the token and the tokenizer after it.
Scanned(tk, token) == [tk |-> tk, token |-> token]

\* A number() that converts the whole literal, as Number(numStr) would
NumberToken_WholeText(r, startPos) ==
  Scanned(r.tk, Token("NUMBER", StringToNumber(r.text), startPos))

NumberToken(r, startPos) == Scanned(r.tk, Token("NUMBER", parseFloat(r.text), startPos))

\* number()
number(tk) == NumberToken(numberLoop(tk, <<>>), tk.position)

RECURSIVE stringLoop(_, _, _)
stringLoop(tk, quote, strValue) ==
  IF currentChar(tk) # null /\ currentChar(tk) # quote
  THEN IF currentChar(tk) = "\\"
       THEN IF currentChar(advance(tk)) # null
            THEN stringLoop(advance(advance(tk)), quote,
                            Append(strValue, currentChar(advance(tk))))
            ELSE stringLoop(advance(tk), quote, strValue)
       ELSE stringLoop(advance(tk), quote, Append(strValue, currentChar(tk)))
  ELSE [tk |-> tk, text |-> strValue]

StringToken(r, quote, startPos) ==
  Scanned(IF currentChar(r.tk) = quote THEN advance(r.tk) ELSE r.tk,
          Token("STRING", Str(r.text), startPos))

\* string()
string(tk) ==
  StringToken(stringLoop(advance(tk), currentChar(tk), <<>>), currentChar(tk), tk.position)

RECURSIVE identifierLoop(_, _)
identifierLoop(tk, idStr) ==
  IF currentChar(tk) # null /\ IsIdentChar(currentChar(tk))
  THEN identifierLoop(advance(tk), Append(idStr, currentChar(tk)))
  ELSE [tk |-> tk, text |-> idStr]

TrueText == <<"t", "r", "u", "e">>
FalseText == <<"f", "a", "l", "s", "e">>

IdentifierToken(r, startPos) ==
  IF r.text = TrueText \/ r.text = FalseText
  THEN Scanned(r.tk, Token("BOOLEAN", Bool(r.text = TrueText), startPos))
  ELSE Scanned(r.tk, Token("IDENTIFIER", Str(r.text), startPos))

\* identifier()
identifier(tk) == IdentifierToken(identifierLoop(tk, <<>>), tk.position)

\* operator()
operator(tk) ==
  IF peek(tk, 1) # null /\ currentChar(tk) \in {"=", "!", ">", "<"} /\ peek(tk, 1) = "="
  THEN Scanned(advance(advance(tk)),
               Token("OPERATOR", Str(<<currentChar(tk), peek(tk, 1)>>), tk.position))
  ELSE Scanned(advance(tk), Token("OPERATOR", Str(<<currentChar(tk)>>), tk.position))

\* A "-" that starts a literal whatever token precedes it
NegativeNumberStart_AfterAnyToken(tk, tokens) ==
  /\ currentChar(tk) = "-"
  /\ peek(tk, 1) # null
  /\ IsDigit(peek(tk, 1))

\* The condition of tokenizer.ts:179-187 under which "-" starts a literal.
NegativeNumberStart(tk, tokens) ==
  /\ currentChar(tk) = "-"
  /\ peek(tk, 1) # null
  /\ IsDigit(peek(tk, 1))
  /\ \/ Len(tokens) = 0
     \/ tokens[Len(tokens)].type = "PAREN_OPEN"
     \/ tokens[Len(tokens)].type = "OPERATOR"
     \/ tokens[Len(tokens)].type = "COMMA"

\* tokenizer.ts:190: numToken.value = -numToken.value
Negated(r) == [r EXCEPT !.token.value = Neg(@)]

\* A punctuation token pushed inline (tokenizer.ts:208-237)
Punctuation(tk, type) ==
  Scanned(advance(tk), Token(type, Str(<<currentChar(tk)>>), tk.position))

\* One pass of the loop body after skipWhitespace: the scanned token, or no
\* token (type "") for an unknown character, which is skipped.
ScanToken(tk, tokens) ==
  IF IsDigit(currentChar(tk)) THEN number(tk)
  ELSE IF NegativeNumberStart(tk, tokens) THEN Negated(number(advance(tk)))
  ELSE IF currentChar(tk) = "\"" \/ currentChar(tk) = "'" THEN string(tk)
  ELSE IF IsIdentStart(currentChar(tk)) THEN identifier(tk)
  ELSE IF currentChar(tk) = "(" THEN Punctuation(tk, "PAREN_OPEN")
  ELSE IF currentChar(tk) = ")" THEN Punctuation(tk, "PAREN_CLOSE")
  ELSE IF currentChar(tk) = "," THEN Punctuation(tk, "COMMA")
  ELSE IF IsOperatorChar(currentChar(tk)) THEN operator(tk)
  ELSE Scanned(advance(tk), Token("", Undefined, tk.position))

RECURSIVE tokenizeLoop(_, _)
Pushed(r, tokens) ==
  tokenizeLoop(r.tk, IF r.token.type = "" THEN tokens ELSE Append(tokens, r.token))

TokenizeStep(tk, tokens) ==
  IF currentChar(tk) = null THEN [tk |-> tk, tokens |-> tokens]
  ELSE Pushed(ScanToken(tk, tokens), tokens)

\* The while loop of tokenize(): the tokens and the tokenizer at its exit.
tokenizeLoop(tk, tokens) ==
  IF currentChar(tk) = null THEN [tk |-> tk, tokens |-> tokens]
  ELSE TokenizeStep(skipWhitespace(tk), tokens)

\* A tokenize that appends no end-of-input token
WithEOF_Missing(r) == r.tokens

WithEOF(r) == Append(r.tokens, Token("EOF", Str(<<>>), r.tk.position))

\* new Tokenizer(input).tokenize()
tokenize(input) == WithEOF(tokenizeLoop(Tokenizer(input), <<>>))

(***************************************************************************)
(* JavaScript objects: Record<string, any> maps created by object literals *)
(* (parser.ts:10-11, 29, 373, 385).  A map is a function from its own keys *)
(* to values; every such object inherits from Object.prototype.            *)
(***************************************************************************)
OrText == <<"o", "r">>
AndText == <<"a", "n", "d">>
NotText == <<"n", "o", "t">>
ConstructorText == <<"c", "o", "n", "s", "t", "r", "u", "c", "t", "o", "r">>
ToStringText == <<"t", "o", "S", "t", "r", "i", "n", "g">>
ValueOfText == <<"v", "a", "l", "u", "e", "O", "f">>
HasOwnPropertyText == <<"h", "a", "s", "O", "w", "n", "P", "r", "o", "p", "e", "r", "t", "y">>
ProtoText == <<"_", "_", "p", "r", "o", "t", "o", "_", "_">>
ObjectObjectText == <<"[", "o", "b", "j", "e", "c", "t", " ", "O", "b", "j", "e", "c", "t", "]">>
\* The source text of a function object, kept as one opaque character.
FunctionSourceText == <<"function () { [native code] }">>

EmptyObject == [n \in {} |-> Undefined]

\* The properties every object literal inherits (the ones the claims name).
ObjectPrototype ==
  [n \in {ConstructorText, ToStringText, ValueOfText, HasOwnPropertyText, ProtoText} |->
     CASE n = ConstructorText -> Fun("Object")
       [] n = ToStringText -> Fun("Object.prototype.toString")
       [] n = ValueOfText -> Fun("Object.prototype.valueOf")
       [] n = HasOwnPropertyText -> Fun("Object.prototype.hasOwnProperty")
       [] n = ProtoText -> Obj("Object.prototype")]

\* name in obj: own keys and the prototype chain
HasProperty(obj, name) == name \in DOMAIN obj \/ name \in DOMAIN ObjectPrototype

\* obj[name]
GetProperty(obj, name) ==
  IF name \in DOMAIN obj THEN obj[name]
  ELSE IF name \in DOMAIN ObjectPrototype THEN ObjectPrototype[name]
  ELSE Undefined

\* { ...b, ...a }: the spread with the operands in the other order
Spread_Reversed(a, b) ==
  [n \in DOMAIN a \cup DOMAIN b |-> IF n \in DOMAIN a THEN a[n] ELSE b[n]]

\* { ...a, ...b }: the own keys of both, b's value where both have the key
Spread(a, b) ==
  [n \in DOMAIN a \cup DOMAIN b |-> IF n \in DOMAIN b THEN b[n] ELSE a[n]]

IsWrapper(v) == v.t = "object" /\ v.id \in {"Number", "String", "Boolean"}

\* The primitive inside a wrapper object
Unwrap(v) ==
  [v EXCEPT !.t = CASE v.id = "Number" -> "number"
                    [] v.id = "String" -> "string"
                    [] v.id = "Boolean" -> "boolean",
            !.id = ""]

\* ToPrimitive of an object or function
ToPrimitive(v) ==
  IF IsWrapper(v) THEN Unwrap(v)
  ELSE IF v.t = "function" THEN Str(FunctionSourceText)
  ELSE Str(ObjectObjectText)

\* The abstract operation ToNumber (used by == and by Math.max)
PrimitiveToNumber(p) ==
  CASE p.t = "number" -> p
    [] p.t = "boolean" -> IF p.b THEN Int2Num(1) ELSE Int2Num(0)
    [] p.t = "string" -> StringToNumber(p.str)
    [] OTHER -> NaN

JsToNumber(v) ==
  PrimitiveToNumber(IF v.t \in {"object", "function"} THEN ToPrimitive(v) ELSE v)

\* Objects made anew by the call that returns them are equal to nothing else.
IsFresh(v) == v.t = "object" /\ v.id \in {"Number", "String", "Boolean", "Object"}

RECURSIVE LooseEquals(_, _)
\* left == right
LooseEquals(x, y) ==
  CASE x.t = "number" /\ y.t = "number" -> NumEq(x, y)
    [] x.t = "string" /\ y.t = "string" -> x.str = y.str
    [] x.t = "boolean" /\ y.t = "boolean" -> x.b = y.b
    [] x.t = "undefined" \/ y.t = "undefined" -> x.t = y.t
    [] x.t \in {"object", "function"} /\ y.t \in {"object", "function"} ->
         x.t = y.t /\ x.id = y.id /\ ~IsFresh(x)
    [] x.t = "number" /\ y.t = "string" -> NumEq(x, StringToNumber(y.str))
    [] x.t = "string" /\ y.t = "number" -> NumEq(StringToNumber(x.str), y)
    [] x.t = "boolean" -> LooseEquals(JsToNumber(x), y)
    [] y.t = "boolean" -> LooseEquals(x, JsToNumber(y))
    [] x.t \in {"object", "function"} -> LooseEquals(ToPrimitive(x), y)
    [] y.t \in {"object", "function"} -> LooseEquals(x, ToPrimitive(y))
    [] OTHER -> FALSE

(***************************************************************************)
(* Callables.  Math.max is the function the tests register                 *)
(* (part_002:159); the others are inherited from Object.prototype.         *)
(***************************************************************************)
MaxText == <<"m", "a", "x">>

\* The larger of two Numbers, NaN when either is NaN, +0 above -0
Larger(acc, n) ==
  IF IsNaN(n) \/ IsNaN(acc) THEN NaN
  ELSE IF NumLt(acc, n) \/ (IsZero(acc) /\ IsZero(n) /\ n.sg = 1) THEN n
  ELSE acc

RECURSIVE MathMaxFrom(_, _, _)
MathMaxFrom(args, i, acc) ==
  IF i > Len(args) THEN acc
  ELSE MathMaxFrom(args, i + 1, Larger(acc, JsToNumber(args[i])))

\* Math.max(...args)
MathMax(args) == MathMaxFrom(args, 1, Neg(Infinity))

\* Object(value)
ObjectConstructor(args) ==
  IF Len(args) = 0 \/ args[1].t = "undefined" THEN Obj("Object")
  ELSE IF args[1].t = "number" THEN [args[1] EXCEPT !.t = "object", !.id = "Number"]
  ELSE IF args[1].t = "string" THEN [args[1] EXCEPT !.t = "object", !.id = "String"]
  ELSE IF args[1].t = "boolean" THEN [args[1] EXCEPT !.t = "object", !.id = "Boolean"]
  ELSE args[1]

\* Object.prototype.hasOwnProperty.call(thisObj, key).  The maps of the model
\* have identifier keys only, so a Number key is never an own key.
HasOwnProperty(thisObj, args) ==
  IF Len(args) = 0 THEN FALSE
  ELSE CASE args[1].t = "string" -> args[1].str \in DOMAIN thisObj
         [] args[1].t = "boolean" ->
              (IF args[1].b THEN TrueText ELSE FalseText) \in DOMAIN thisObj
         [] OTHER -> FALSE

IsCallable(v) == v.t = "function"

InstallText == <<"i", "n", "s", "t", "a", "l", "l">>

\* The Functions object after the call of callee.  The host's callable
\* install is () => { parser.functions.max = Math.max; return 0 }; the
\* evaluator holds the facade's Functions object itself (parser.ts:36-40).
Mutated(callee, functions_) ==
  IF callee.id = "install"
  THEN [n \in DOMAIN functions_ \cup {MaxText} |->
          IF n = MaxText THEN Fun("Math.max") ELSE functions_[n]]
  ELSE functions_

\* callee.apply(thisObj, args) for a callable callee: the returned value
Apply(callee, thisObj, args) ==
  CASE callee.id = "Math.max" -> MathMax(args)
    [] callee.id = "Object" -> ObjectConstructor(args)
    [] callee.id = "Object.prototype.toString" -> Str(ObjectObjectText)
    [] callee.id = "Object.prototype.valueOf" -> Obj("functions")
    [] callee.id = "Object.prototype.hasOwnProperty" -> Bool(HasOwnProperty(thisObj, args))
    [] callee.id = "install" -> Int2Num(0)
    [] OTHER -> Undefined

(***************************************************************************)
(* ExpressionEvaluator (src/src/parser.ts:69-365)                          *)
(*                                                                         *)
(* An evaluator ev is the record of the instance's fields; calls is the    *)
(* history of the callables the evaluation has invoked, in order.  A       *)
(* parse method maps an evaluator to a result: the evaluator after the     *)
(* method, and either the returned value (ok) or the error thrown (err).   *)
(***************************************************************************)
ExpressionEvaluator(tokens, variables, functions) ==
  [tokens |-> tokens, currentTokenIndex |-> 0,
   variables |-> variables, functions |-> functions, calls |-> <<>>,
   depth |-> 0, deepest |-> 0, consumed |-> <<>>, primaries |-> <<>>]

Error(kind, name, type, position) ==
  [kind |-> kind, name |-> name, type |-> type, position |-> position,
   wrapped |-> FALSE, expression |-> <<>>]

NoError == Error("", <<>>, "", 0)

Return(ev, val) == [ev |-> ev, ok |-> TRUE, val |-> val, err |-> NoError]
Throw(ev, err) == [ev |-> ev, ok |-> FALSE, val |-> Undefined, err |-> err]

\* Reading a property of undefined (a token read beyond the sequence, or a
\* call of a value that is no function) throws a TypeError.
TypeError(ev) == Throw(ev, Error("TypeError", <<>>, "", 0))

\* this.tokens[this.currentTokenIndex] is defined
HasToken(ev) == ev.currentTokenIndex < Len(ev.tokens)

currentToken(ev) == ev.tokens[ev.currentTokenIndex + 1]

\* A consume() that shifts the token off the array it reads
consume_Shift(ev) == [ev EXCEPT !.tokens = Tail(@)]

\* consume(): the evaluator after it (the token returned is currentToken(ev))
\* consumed is the history of the indices consume() has moved the cursor from
consume(ev) ==
  [ev EXCEPT !.currentTokenIndex = @ + 1,
             !.consumed = Append(@, ev.currentTokenIndex)]

IsKeyword(ev, text) ==
  currentToken(ev).type = "IDENTIFIER" /\ currentToken(ev).value.str = text

IsOperator(ev, ops) ==
  currentToken(ev).type = "OPERATOR" /\ currentToken(ev).value.str \in ops

toBool(value) ==
  CASE value.t = "boolean" -> value.b
    [] value.t = "number" -> ~IsZero(value)
    [] value.t = "string" -> Len(value.str) > 0
    [] OTHER -> value.t # "undefined"

NaNToZero(num) == IF IsNaN(num) THEN Int2Num(0) ELSE num

\* A toNumber for which every string is 0
toNumber_StringsAreZero(value) ==
  CASE value.t = "number" -> value
    [] value.t = "boolean" -> IF value.b THEN Int2Num(1) ELSE Int2Num(0)
    [] OTHER -> Int2Num(0)

toNumber(value) ==
  CASE value.t = "number" -> value
    [] value.t = "boolean" -> IF value.b THEN Int2Num(1) ELSE Int2Num(0)
    [] value.t = "string" -> NaNToZero(parseFloat(value.str))
    [] OTHER -> Int2Num(0)

ComparisonOperators == {<<"=", "=">>, <<"!", "=">>, <<">">>, <<"<">>, <<">", "=">>, <<"<", "=">>}

Compared(l, op, r) ==
  CASE op = <<">">> -> NumLt(r, l)
    [] op = <<"<">> -> NumLt(l, r)
    [] op = <<">", "=">> -> NumLt(r, l) \/ NumEq(l, r)
    [] op = <<"<", "=">> -> NumLt(l, r) \/ NumEq(l, r)

compare(left, op, right) ==
  CASE op = <<"=", "=">> -> LooseEquals(left, right)
    [] op = <<"!", "=">> -> ~LooseEquals(left, right)
    [] OTHER -> Compared(toNumber(left), op, toNumber(right))

Called(ev, functionName, callee, args) ==
  IF ~IsCallable(callee) THEN TypeError(ev)
  ELSE Return([ev EXCEPT !.calls = Append(@, [name |-> functionName, args |-> args]),
                         !.functions = Mutated(callee, @)],
              Apply(callee, ev.functions, args))

\* this.functions[functionName](...args), functionName being in this.functions
callFunction(ev, functionName, args) ==
  Called(ev, functionName, GetProperty(ev.functions, functionName), args)

\* The call stack: depth is the number of calls of parseOr and parseNot that
\* have not returned, deepest the largest depth the evaluation has had.
Entered(ev) ==
  [ev EXCEPT !.depth = @ + 1,
             !.deepest = IF ev.depth + 1 > @ THEN ev.depth + 1 ELSE @]

Exited(r) == [r EXCEPT !.ev.depth = @ - 1]

RECURSIVE parseOr(_), parseOrLoop(_), parseAnd(_), parseAndLoop(_), parseNot(_)
RECURSIVE parseComparison(_), parseAdditive(_), parseAdditiveLoop(_)
RECURSIVE parseMultiplicative(_), parseMultiplicativeLoop(_), parsePrimary(_)
RECURSIVE parseFunctionCall(_, _), parseArguments(_, _)

\* An or that skips its right operand when the left one is true
OrCombined_ShortCircuit(left, right) ==
  IF toBool(left.val) THEN Return([right.ev EXCEPT !.calls = left.ev.calls], Bool(TRUE))
  ELSE IF ~right.ok THEN right
  ELSE Return(right.ev, Bool(toBool(right.val)))

\* parser.ts:120, right being the result of the right operand
OrCombined(left, right) ==
  IF ~right.ok THEN right
  ELSE Return(right.ev, Bool(toBool(left.val) \/ toBool(right.val)))

\* parser.ts:114-123, left being the result so far; an error thrown by an
\* operand ends the method
parseOrLoop(left) ==
  IF ~left.ok THEN left
  ELSE IF ~HasToken(left.ev) THEN TypeError(left.ev)
  ELSE IF IsKeyword(left.ev, OrText)
  THEN parseOrLoop(OrCombined(left, parseAnd(consume(left.ev))))
  ELSE left

parseOr(ev) == Exited(parseOrLoop(parseAnd(Entered(ev))))

\* parser.ts:138
AndCombined(left, right) ==
  IF ~right.ok THEN right
  ELSE Return(right.ev, Bool(toBool(left.val) /\ toBool(right.val)))

\* parser.ts:132-141
parseAndLoop(left) ==
  IF ~left.ok THEN left
  ELSE IF ~HasToken(left.ev) THEN TypeError(left.ev)
  ELSE IF IsKeyword(left.ev, AndText)
  THEN parseAndLoop(AndCombined(left, parseNot(consume(left.ev))))
  ELSE left

parseAnd(ev) == parseAndLoop(parseNot(ev))

\* parser.ts:153
Negation(r) == IF ~r.ok THEN r ELSE Return(r.ev, Bool(~toBool(r.val)))

\* parser.ts:148-156, in the frame of the call
NotOrComparison(ev) ==
  IF ~HasToken(ev) THEN TypeError(ev)
  ELSE IF IsKeyword(ev, NotText) THEN Negation(parseNot(consume(ev)))
  ELSE parseComparison(ev)

parseNot(ev) == Exited(NotOrComparison(Entered(ev)))

\* parser.ts:171
ComparedWith(left, op, right) ==
  IF ~right.ok THEN right
  ELSE Return(right.ev, Bool(compare(left.val, op, right.val)))

\* parser.ts:165-175
ComparisonRest(left) ==
  IF ~left.ok THEN left
  ELSE IF ~HasToken(left.ev) THEN TypeError(left.ev)
  ELSE IF IsOperator(left.ev, ComparisonOperators)
  THEN ComparedWith(left, currentToken(left.ev).value.str, parseAdditive(consume(left.ev)))
  ELSE left

parseComparison(ev) == ComparisonRest(parseAdditive(ev))

\* A + that concatenates two strings as the + of JavaScript does
AdditiveStep_Concatenating(left, op, right) ==
  IF ~right.ok THEN right
  ELSE IF op = <<"+">> /\ left.val.t = "string" /\ right.val.t = "string"
  THEN Return(right.ev, Str(left.val.str \o right.val.str))
  ELSE IF op = <<"+">>
  THEN Return(right.ev, NumAdd(toNumber(left.val), toNumber(right.val)))
  ELSE Return(right.ev, NumSub(toNumber(left.val), toNumber(right.val)))

\* parser.ts:191-195
AdditiveStep(left, op, right) ==
  IF ~right.ok THEN right
  ELSE IF op = <<"+">>
  THEN Return(right.ev, NumAdd(toNumber(left.val), toNumber(right.val)))
  ELSE Return(right.ev, NumSub(toNumber(left.val), toNumber(right.val)))

\* A + or - whose right operand takes the additive operators that follow
parseAdditiveLoop_RightAssociative(left) ==
  IF ~left.ok THEN left
  ELSE IF ~HasToken(left.ev) THEN TypeError(left.ev)
  ELSE IF IsOperator(left.ev, {<<"+">>, <<"-">>})
  THEN AdditiveStep(left, currentToken(left.ev).value.str, parseAdditive(consume(left.ev)))
  ELSE left

\* parser.ts:184-198
parseAdditiveLoop(left) ==
  IF ~left.ok THEN left
  ELSE IF ~HasToken(left.ev) THEN TypeError(left.ev)
  ELSE IF IsOperator(left.ev, {<<"+">>, <<"-">>})
  THEN parseAdditiveLoop(
         AdditiveStep(left, currentToken(left.ev).value.str,
                      parseMultiplicative(consume(left.ev))))
  ELSE left

parseAdditive(ev) == parseAdditiveLoop(parseMultiplicative(ev))

\* parser.ts:214-220
MultiplicativeStep(left, op, right) ==
  IF ~right.ok THEN right
  ELSE IF op = <<"*">>
  THEN Return(right.ev, NumMul(toNumber(left.val), toNumber(right.val)))
  ELSE IF op = <<"/">>
  THEN Return(right.ev, NumDiv(toNumber(left.val), toNumber(right.val)))
  ELSE Return(right.ev, NumMod(toNumber(left.val), toNumber(right.val)))

\* parser.ts:207-223
parseMultiplicativeLoop(left) ==
  IF ~left.ok THEN left
  ELSE IF ~HasToken(left.ev) THEN TypeError(left.ev)
  ELSE IF IsOperator(left.ev, {<<"*">>, <<"/">>, <<"%">>})
  THEN parseMultiplicativeLoop(
         MultiplicativeStep(left, currentToken(left.ev).value.str,
                            parsePrimary(consume(left.ev))))
  ELSE left

parseMultiplicative(ev) == parseMultiplicativeLoop(parsePrimary(ev))

\* A parenthesized expression that requires its closing parenthesis
ParenClosed_Strict(r) ==
  IF ~r.ok THEN r
  ELSE IF ~HasToken(r.ev) THEN TypeError(r.ev)
  ELSE IF currentToken(r.ev).type = "PAREN_CLOSE" THEN Return(consume(r.ev), r.val)
  ELSE Throw(r.ev, Error("Unexpected token", <<>>, currentToken(r.ev).type,
                         currentToken(r.ev).position))

\* parser.ts:254-257, r being the result of the parenthesized expression
ParenClosed(r) ==
  IF ~r.ok THEN r
  ELSE IF ~HasToken(r.ev) THEN TypeError(r.ev)
  ELSE IF currentToken(r.ev).type = "PAREN_CLOSE" THEN Return(consume(r.ev), r.val)
  ELSE r

\* parser.ts:265-275, the identifier name being consumed
IdentifierRest(ev, name) ==
  IF ~HasToken(ev) THEN TypeError(ev)
  ELSE IF currentToken(ev).type = "PAREN_OPEN" THEN parseFunctionCall(ev, name)
  ELSE IF HasProperty(ev.variables, name) THEN Return(ev, GetProperty(ev.variables, name))
  ELSE Throw(ev, Error("Undefined variable", name, "", 0))

\* parser.ts:229-279, the body of parsePrimary
PrimaryAt(ev) ==
  IF ~HasToken(ev) THEN TypeError(ev)
  ELSE IF currentToken(ev).type \in {"NUMBER", "STRING", "BOOLEAN"}
  THEN Return(consume(ev), currentToken(ev).value)
  ELSE IF currentToken(ev).type = "PAREN_OPEN" THEN ParenClosed(parseOr(consume(ev)))
  ELSE IF currentToken(ev).type = "IDENTIFIER"
  THEN IdentifierRest(consume(ev), currentToken(ev).value.str)
  ELSE Throw(ev, Error("Unexpected token", <<>>, currentToken(ev).type,
                       currentToken(ev).position))

\* primaries is the history of the cursor at each call of parsePrimary
Descended(ev) == [ev EXCEPT !.primaries = Append(@, ev.currentTokenIndex)]

parsePrimary(ev) == PrimaryAt(Descended(ev))

\* parser.ts:291-295, r being the result of the argument expression
ArgumentPushed(r, args) ==
  IF ~r.ok THEN r
  ELSE IF ~HasToken(r.ev) THEN TypeError(r.ev)
  ELSE IF currentToken(r.ev).type = "COMMA"
  THEN parseArguments(consume(r.ev), Append(args, r.val))
  ELSE parseArguments(r.ev, Append(args, r.val))

\* parser.ts:290-296: the evaluator after the loop, the arguments as val
parseArguments(ev, args) ==
  IF ~HasToken(ev) THEN TypeError(ev)
  ELSE IF currentToken(ev).type # "PAREN_CLOSE" /\ currentToken(ev).type # "EOF"
  THEN ArgumentPushed(parseOr(ev), args)
  ELSE [ev |-> ev, ok |-> TRUE, val |-> args, err |-> NoError]

\* parser.ts:304-308
CallIfDefined(ev, functionName, args) ==
  IF HasProperty(ev.functions, functionName) THEN callFunction(ev, functionName, args)
  ELSE Throw(ev, Error("Undefined function", functionName, "", 0))

\* A call that consumes the token after its arguments whatever it is
CallFinished_AlwaysCloses(a, functionName) ==
  IF ~a.ok THEN a
  ELSE CallIfDefined(consume(a.ev), functionName, a.val)

\* parser.ts:299-308, a being the result of the argument loop
CallFinished(a, functionName) ==
  IF ~a.ok THEN a
  ELSE CallIfDefined(
         IF currentToken(a.ev).type = "PAREN_CLOSE" THEN consume(a.ev) ELSE a.ev,
         functionName, a.val)

\* A call that looks its name up before it evaluates the arguments
parseFunctionCall_LookupFirst(ev, functionName) ==
  IF ~HasProperty(ev.functions, functionName)
  THEN Throw(consume(ev), Error("Undefined function", functionName, "", 0))
  ELSE CallFinished(parseArguments(consume(ev), <<>>), functionName)

parseFunctionCall(ev, functionName) ==
  CallFinished(parseArguments(consume(ev), <<>>), functionName)

\* ExpressionEvaluator.evaluate()
evaluator_evaluate(ev) == parseOr(ev)

(***************************************************************************)
(* The standalone helpers (parser.ts:370-388) and the Parser facade        *)
(* (parser.ts:9-60).  An absent variables argument is the empty object.    *)
(***************************************************************************)
\* evaluate(expression, variables)
evaluate(expression, variables) ==
  evaluator_evaluate(ExpressionEvaluator(tokenize(expression), variables, EmptyObject))

\* compile(expression): the closure, which captures the token array
compile(expression) == [made |-> TRUE, tokens |-> tokenize(expression)]

\* The function compile returned, called with variables
compiled_call(closure, variables) ==
  evaluator_evaluate(ExpressionEvaluator(closure.tokens, variables, EmptyObject))

\* parser.ts:43-45: the error the facade throws for a caught error
WrapError(expression, err) == [err EXCEPT !.wrapped = TRUE, !.expression = expression]

\* Parser.parse(expression): the handle, which captures the expression text
Parser_parse(expression) == [made |-> TRUE, expression |-> expression]

\* A facade that lets the failure of the try block through as it is
Caught_Unwrapped(expression, r) == r

\* parser.ts:27-46: the try block returned or threw r
Caught(expression, r) == IF r.ok THEN r ELSE Throw(r.ev, WrapError(expression, r.err))

\* handle.evaluate(variables) on the parser with the fields consts, functions
handle_evaluate(consts_, functions_, expression, variables) ==
  IF expression = <<>>
  THEN Return(ExpressionEvaluator(<<>>, variables, functions_), Bool(TRUE))
  ELSE Caught(expression,
              evaluator_evaluate(
                ExpressionEvaluator(tokenize(expression), Spread(consts_, variables),
                                    functions_)))

\* Parser.evaluate(expression, variables)
Parser_evaluate(consts_, functions_, expression, variables) ==
  handle_evaluate(consts_, functions_, Parser_parse(expression).expression, variables)

(***************************************************************************)
(* State                                                                   *)
(***************************************************************************)
VARIABLES
  input,      \* the expression text the host works with
  functions,  \* Parser.functions
  consts,     \* Parser.consts
  handle,     \* the handle parser.parse(input) returned, once made
  compiled,   \* the function compile(input) returned, once made
  last        \* the last evaluation: entry point, arguments and what it returned

vars == <<input, functions, consts, handle, compiled, last>>

XText == <<"x">>
YText == <<"y">>

\* What the caller of an entry point observes of the result r.
Outcome(entry, variables, r) ==
  [entry |-> entry, variables |-> variables, ok |-> r.ok, val |-> r.val, err |-> r.err,
   calls |-> r.ev.calls, cursor |-> r.ev.currentTokenIndex, tokens |-> r.ev.tokens,
   environment |-> r.ev.variables, registry |-> r.ev.functions,
   deepest |-> r.ev.deepest, consumed |-> r.ev.consumed,
   primaries |-> r.ev.primaries]

NoHandle == [made |-> FALSE, expression |-> <<>>]
NoClosure == [made |-> FALSE, tokens |-> <<>>]
NoOutcome ==
  Outcome("none", EmptyObject, Return(ExpressionEvaluator(<<>>, EmptyObject, EmptyObject), Undefined))

\* The variables maps the host passes to an evaluation.
UserNameText == <<"u", "s", "e", "r", ".", "n", "a", "m", "e">>

VariablesChoices ==
  {EmptyObject,
   [n \in {XText} |-> Int2Num(2)],
   [n \in {XText, YText, UserNameText} |->
      CASE n = XText -> Int2Num(5) [] n = YText -> Int2Num(3) [] OTHER -> Str(<<"a">>)]}

\* new Parser(), the host holding some expression text of the set Inputs
InitWith(Inputs) ==
  /\ input \in Inputs
  /\ functions = EmptyObject
  /\ consts = EmptyObject
  /\ handle = NoHandle
  /\ compiled = NoClosure
  /\ last = NoOutcome

(***************************************************************************)
(* Operations of the host                                                  *)
(***************************************************************************)
\* The facade returned or threw r: the evaluator shares the functions object
FacadeReturned(entry, variables, r) ==
  /\ last' = Outcome(entry, variables, r)
  /\ functions' = r.ev.functions

\* The compiled function returned or threw r: the evaluator shares the tokens
ClosureReturned(variables, r) ==
  /\ last' = Outcome("compiled", variables, r)
  /\ compiled' = [compiled EXCEPT !.tokens = r.ev.tokens]

\* parser.functions.max = Math.max
SetFunction ==
  /\ functions' = Spread(functions, [n \in {MaxText} |-> Fun("Math.max")])
  /\ UNCHANGED <<input, consts, handle, compiled, last>>

\* parser.functions.install = () => { parser.functions.max = Math.max; return 0 }
SetInstaller ==
  /\ functions' = Spread(functions, [n \in {InstallText} |-> Fun("install")])
  /\ UNCHANGED <<input, consts, handle, compiled, last>>

\* parser.consts.x = 1
SetConst ==
  /\ consts' = Spread(consts, [n \in {XText} |-> Int2Num(1)])
  /\ UNCHANGED <<input, functions, handle, compiled, last>>

\* handle = parser.parse(input)
ParserParse ==
  /\ handle' = Parser_parse(input)
  /\ UNCHANGED <<input, functions, consts, compiled, last>>

\* handle.evaluate(variables)
HandleEvaluate ==
  /\ handle.made
  /\ \E variables \in VariablesChoices :
       FacadeReturned("handle", variables,
                      handle_evaluate(consts, functions, handle.expression, variables))
  /\ UNCHANGED <<input, consts, handle, compiled>>

\* parser.evaluate(input, variables)
ParserEvaluate ==
  /\ \E variables \in VariablesChoices :
       FacadeReturned("Parser.evaluate", variables,
                      Parser_evaluate(consts, functions, input, variables))
  /\ UNCHANGED <<input, consts, handle, compiled>>

\* evaluate(input, variables)
Evaluate ==
  /\ \E variables \in VariablesChoices :
       last' = Outcome("evaluate", variables, evaluate(input, variables))
  /\ UNCHANGED <<input, functions, consts, handle, compiled>>

\* The token a host that builds its own token sequence makes of a character
TokenOf(c) ==
  CASE c = "1" -> Token("NUMBER", Int2Num(1), 0)
    [] c = "x" -> Token("IDENTIFIER", Str(XText), 0)
    [] c = "m" -> Token("IDENTIFIER", Str(MaxText), 0)
    [] c = "(" -> Token("PAREN_OPEN", Str(<<"(">>), 0)
    [] c = ")" -> Token("PAREN_CLOSE", Str(<<")">>), 0)
    [] c = "," -> Token("COMMA", Str(<<",">>), 0)
    [] c = "+" -> Token("OPERATOR", Str(<<"+">>), 0)
    [] OTHER -> Token("EOF", Str(<<>>), 0)

\* One token per character of the text, then the end-of-input token
HandBuilt(text) ==
  [i \in 1..Len(text) |-> TokenOf(text[i])] \o <<Token("EOF", Str(<<>>), 0)>>

\* new ExpressionEvaluator(tokens, variables, parser.functions).evaluate(),
\* tokens being built by the host from input without the tokenizer
EvaluatorEvaluate ==
  /\ \E variables \in VariablesChoices :
       last' = Outcome("ExpressionEvaluator", variables,
                       evaluator_evaluate(
                         ExpressionEvaluator(HandBuilt(input), variables, functions)))
  /\ UNCHANGED <<input, functions, consts, handle, compiled>>

\* compiled = compile(input)
Compile ==
  /\ compiled' = compile(input)
  /\ UNCHANGED <<input, functions, consts, handle, last>>

\* compiled(variables); the closure and the evaluator share the token array
CompiledCall ==
  /\ compiled.made
  /\ \E variables \in VariablesChoices :
       ClosureReturned(variables, compiled_call(compiled, variables))
  /\ UNCHANGED <<input, functions, consts, handle>>

Next ==
  \/ SetFunction
  \/ SetConst
  \/ ParserParse
  \/ HandleEvaluate
  \/ ParserEvaluate
  \/ Evaluate
  \/ Compile
  \/ CompiledCall

(***************************************************************************)
(* Input texts                                                             *)
(***************************************************************************)
RECURSIVE Concat(_)
\* The concatenation of a sequence of texts
Concat(ws) == IF Len(ws) = 0 THEN <<>> ELSE Head(ws) \o Concat(Tail(ws))

\* The texts made of at most k words of the vocabulary
Phrases(Vocabulary, k) ==
  {Concat(ws) : ws \in UNION {[1..n -> Vocabulary] : n \in 0..k}}

\* The longest phrase of the general specification
MaxWords == 2

Words ==
  {XText, YText, <<" ">>, <<" ", "+", " ", "1">>, <<" ", "*", " ", "y">>, <<"m", "a", "x", "(", "x", ",", " ", "y", ")">>}

Init == InitWith(Phrases(Words, MaxWords))

Spec == Init /\ [][Next]_vars

\* Identifiers and what may follow one: nothing, or an argument list
EvalText == <<"e", "v", "a", "l">>
FunctionText == <<"F", "u", "n", "c", "t", "i", "o", "n">>
ProcessExitText == <<"p", "r", "o", "c", "e", "s", "s", ".", "e", "x", "i", "t">>

Names ==
  {XText, UserNameText, MaxText, ConstructorText, ToStringText, ValueOfText,
   HasOwnPropertyText, ProtoText, EvalText, FunctionText, ProcessExitText}

ArgumentLists == {<<>>, <<"(", ")">>, <<"(", "1", ")">>}

InitNames == InitWith({n \o a : n \in Names, a \in ArgumentLists})

SpecNames == InitNames /\ [][Next]_vars

\* Logical expressions over the Boolean literals, in both spellings
BooleanTexts == {TrueText, FalseText}

InfixTexts == {<<"&", "&">>, <<"|", "|">>, AndText, OrText}

PrefixTexts == {<<"!">>, NotText \o <<" ">>}

SpellingInputs ==
  {a \o <<" ">> \o op \o <<" ">> \o b : a \in BooleanTexts, op \in InfixTexts, b \in BooleanTexts}
    \cup {op \o a : op \in PrefixTexts, a \in BooleanTexts}

InitSpellings == InitWith(SpellingInputs)

SpecSpellings == InitSpellings /\ [][Next]_vars

\* Comparisons that follow one another: bare, parenthesized, as an argument
ComparisonTexts == {<<"<">>, <<">">>, <<"=", "=">>}

ChainTexts ==
  {<<"1", " ">> \o op1 \o <<" ", "2">> : op1 \in ComparisonTexts}
    \cup {<<"3", " ">> \o op1 \o <<" ", "2", " ">> \o op2 \o <<" ", "1">> :
            op1 \in ComparisonTexts, op2 \in ComparisonTexts}

ChainInputs ==
  ChainTexts \cup {<<"(">> \o c \o <<")">> : c \in ChainTexts}
    \cup {MaxText \o <<"(">> \o c \o <<")">> : c \in ChainTexts}

InitChains == InitWith(ChainInputs)

SpecChains == InitChains /\ [][Next]_vars

\* One logical operator between operands that call, fail or yield a value
LeftTexts == {TrueText, FalseText, XText, MaxText \o <<"(", "1", ")">>}

RightTexts == {TrueText, FalseText, YText, MaxText \o <<"(", "2", ")">>}

LogicalInputs ==
  {l \o <<" ">> \o op \o <<" ">> \o r : l \in LeftTexts, op \in {OrText, AndText}, r \in RightTexts}

InitLogical == InitWith(LogicalInputs)

SpecLogical == InitLogical /\ [][Next]_vars

\* Short texts around "-", compiled and run; the two texts of the
\* specification's examples are among them.
MaxMinusWords == 3

MinusWords ==
  {<<"-">>, <<"3">>, <<"(">>, <<")">>, <<",">>, <<"+">>, <<" ">>, XText, <<"'", "a", "'">>, TrueText}

FiveMinusThree == <<"5", "-", "3">>
MinusThreePlusFive == <<"(", "-", "3", ")", " ", "+", " ", "5">>

InitMinus ==
  InitWith(Phrases(MinusWords, MaxMinusWords) \cup {FiveMinusThree, MinusThreePlusFive})

NextCompiled == Compile \/ CompiledCall

SpecMinus == InitMinus /\ [][NextCompiled]_vars

\* Chains of operands and binary operators of every level, bare, with one
\* parenthesized group, and after not; and the texts of the specification's
\* examples.
MaxOperators == 2

OperatorTexts ==
  {OrText, AndText, <<"<">>, <<"+">>, <<"-">>, <<"*">>, <<"/">>, <<"%">>}

OperandText(i) ==
  CASE i = 1 -> <<"7">> [] i = 2 -> <<"3">> [] i = 3 -> XText [] OTHER -> <<"2">>

NoGroup == <<0, 0>>

Groups(k) == {NoGroup} \cup {<<i, j>> : i \in 1..(k + 1), j \in 1..(k + 1)}

Piece(g, i) ==
  (IF g[1] = i THEN <<"(">> ELSE <<>>) \o OperandText(i) \o (IF g[2] = i THEN <<")">> ELSE <<>>)

RECURSIVE ChainText(_, _, _)
ChainText(ops, g, i) ==
  Piece(g, i) \o
    (IF i > Len(ops) THEN <<>>
     ELSE <<" ">> \o ops[i] \o <<" ">> \o ChainText(ops, g, i + 1))

Chains(k) ==
  {prefix \o ChainText(ops, g, 1) :
     prefix \in {<<>>, NotText \o <<" ">>},
     ops \in UNION {[1..n -> OperatorTexts] : n \in 0..k},
     g \in {h \in Groups(k) : h = NoGroup \/ h[1] < h[2]}}

TwoPlusThreeTimesFour == <<"2", " ", "+", " ", "3", " ", "*", " ", "4">>
TwoPlusThreeInParensTimesFour == <<"(", "2", " ", "+", " ", "3", ")", " ", "*", " ", "4">>
FalseOrTrueAndTrue == FalseText \o <<" ">> \o OrText \o <<" ">> \o TrueText \o <<" ">> \o AndText \o <<" ">> \o TrueText
NotFalseAndTrue == NotText \o <<" ">> \o FalseText \o <<" ">> \o AndText \o <<" ">> \o TrueText
HundredMinusFiftyMinusTwentyFive == <<"1", "0", "0", " ", "-", " ", "5", "0", " ", "-", " ", "2", "5">>
HundredByTenByTwo == <<"1", "0", "0", " ", "/", " ", "1", "0", " ", "/", " ", "2">>

PrecedenceExamples ==
  {TwoPlusThreeTimesFour, TwoPlusThreeInParensTimesFour, FalseOrTrueAndTrue,
   NotFalseAndTrue, HundredMinusFiftyMinusTwentyFive, HundredByTenByTwo}

InitPrecedence == InitWith(Chains(MaxOperators) \cup PrecedenceExamples)

NextEvaluate == Evaluate

SpecPrecedence == InitPrecedence /\ [][NextEvaluate]_vars

\* Well-formed texts wrapped in parentheses, with closing parentheses
\* deleted from the end
MaxNesting == 3

ClosedTexts ==
  {<<"5">>,
   XText \o <<" ", "+", " ", "1">>,
   <<"2", " ", "*", " ", "(">> \o XText \o <<" ", "+", " ", "1", ")">>,
   <<"(", "3", " ", ">", " ", "2", ")", " ", ">", " ", "1">>,
   NotText \o <<" ", "(">> \o XText \o <<" ", ">", " ", "1", ")">>,
   MaxText \o <<"(">> \o XText \o <<",", " ", "1", ")">>,
   MaxText \o <<"(", "1", ",", " ", "(">> \o XText \o <<")", ")">>}

RECURSIVE Nested(_, _)
Nested(text, n) == IF n = 0 THEN text ELSE <<"(">> \o Nested(text, n - 1) \o <<")">>

RECURSIVE TrailingClosers(_)
\* The number of closing parentheses at the end of the text
TrailingClosers(text) ==
  IF text = <<>> \/ text[Len(text)] # ")" THEN 0
  ELSE 1 + TrailingClosers(SubSeq(text, 1, Len(text) - 1))

Truncations(text) ==
  {SubSeq(text, 1, Len(text) - k) : k \in 0..TrailingClosers(text)}

UnclosedInputs ==
  UNION {Truncations(Nested(e, n)) : e \in ClosedTexts, n \in 0..MaxNesting}

InitUnclosed == InitWith(UnclosedInputs)

NextEvaluations == SetFunction \/ SetConst \/ Evaluate \/ ParserEvaluate

SpecUnclosed == InitUnclosed /\ [][NextEvaluations]_vars

\* Expressions that fall back silently or fail, each followed by tokens the
\* top-level parse leaves unconsumed
FallbackBases ==
  {<<"1", " ", "/", " ", "0">>, <<"1", " ", "%", " ", "0">>,
   <<"\"", "a", "\"", " ", "*", " ", "2">>, <<"1", " ", "+", " ", "2">>,
   XText, <<"n", "o", "p", "e", "(", ")">>, <<"+">>, ProtoText \o <<"(", ")">>}

Trailers == {<<>>, <<")">>, <<" ", "2">>, <<")", " ", "3">>}

InitFallbacks == InitWith({b \o t : b \in FallbackBases, t \in Trailers})

SpecFallbacks == InitFallbacks /\ [][NextEvaluations]_vars

\* Calls of a registered and of an unregistered name whose arguments yield,
\* fail or call
NopeText == <<"n", "o", "p", "e">>

MaxArguments == 2

CalleeTexts == {MaxText, NopeText}

ArgumentTexts ==
  {<<"1">>, <<"\"", "a", "\"">>, XText, YText, MaxText \o <<"(", "2", ")">>}

ArgumentSeqs == UNION {[1..n -> ArgumentTexts] : n \in 0..MaxArguments}

RECURSIVE CommaSeparated(_)
CommaSeparated(as) ==
  IF Len(as) = 0 THEN <<>>
  ELSE IF Len(as) = 1 THEN as[1]
  ELSE as[1] \o <<",", " ">> \o CommaSeparated(Tail(as))

CallText(f, as) == f \o <<"(">> \o CommaSeparated(as) \o <<")">>

InitCalls == InitWith({CallText(f, as) : f \in CalleeTexts, as \in ArgumentSeqs})

SpecCalls == InitCalls /\ [][NextEvaluations]_vars

\* One arithmetic or ordering operator between operands of every type
Quoted(text) == <<"\"">> \o text \o <<"\"">>

OperandTexts ==
  {Quoted(<<"2">>), Quoted(<<"3">>), Quoted(<<"a">>), Quoted(<<"b">>),
   Quoted(<<"1", "0">>), Quoted(<<"9">>), Quoted(<<"2", "p", "x">>),
   TrueText, FalseText, <<"7">>, XText}

ArithmeticTexts == {<<"+">>, <<"-">>, <<"*">>, <<"/">>, <<"%">>}

OrderingTexts == {<<">">>, <<"<">>, <<">", "=">>, <<"<", "=">>}

BinaryInputs(Operators) ==
  {a \o <<" ">> \o op \o <<" ">> \o b : a \in OperandTexts, op \in Operators, b \in OperandTexts}

InitArithmetic == InitWith(BinaryInputs(ArithmeticTexts))

SpecArithmetic == InitArithmetic /\ [][NextEvaluate]_vars

InitOrdering == InitWith(BinaryInputs(OrderingTexts))

SpecOrdering == InitOrdering /\ [][NextEvaluate]_vars

\* Short texts of characters of every lexical class, compiled and run; the
\* literals with several dots and with a leading dot are among them.
MaxLexWords == 3

LexWords ==
  {<<"'">>, <<"\"">>, <<"\\">>, <<"a">>, <<"1">>, <<".">>, <<"-">>, <<"&">>, <<" ">>,
   <<"=">>, <<"(">>, <<",">>}

OneTwoThreeDotted == <<"1", ".", "2", ".", "3">>
OneDotDotTwo == <<"1", ".", ".", "2">>
DotFive == <<".", "5">>

InitLexical ==
  InitWith(Phrases(LexWords, MaxLexWords) \cup {OneTwoThreeDotted, OneDotDotTwo, DotFive})

SpecLexical == InitLexical /\ [][NextCompiled]_vars

\* The facade with a callable that registers max while it is called
RegistryInputs ==
  {XText,
   MaxText \o <<"(", "1", ",", " ", "2", ")">>,
   InstallText \o <<"(", ")">>,
   InstallText \o <<"(", ")", " ", "+", " ">> \o MaxText \o <<"(", "1", ",", " ", "2", ")">>,
   MaxText \o <<"(", "1", ",", " ", "2", ")", " ", "+", " ">> \o InstallText \o <<"(", ")">>}

InitRegistry == InitWith(RegistryInputs)

NextRegistry ==
  \/ SetFunction
  \/ SetInstaller
  \/ SetConst
  \/ ParserParse
  \/ HandleEvaluate
  \/ ParserEvaluate

SpecRegistry == InitRegistry /\ [][NextRegistry]_vars

\* Parentheses, negations and calls nested to a chosen depth
RECURSIVE Negations(_, _)
Negations(text, n) == IF n = 0 THEN text ELSE NotText \o <<" ">> \o Negations(text, n - 1)

RECURSIVE NestedCalls(_, _)
NestedCalls(text, n) ==
  IF n = 0 THEN text ELSE MaxText \o <<"(">> \o NestedCalls(text, n - 1) \o <<")">>

NestingInputs ==
  UNION {{Nested(<<"5">>, n), Negations(TrueText, n), NestedCalls(XText, n)} :
           n \in 0..MaxNesting}

InitNesting == InitWith(NestingInputs)

SpecNesting == InitNesting /\ [][Next]_vars

\* Expressions that end early, close too often or misplace an operator, and
\* every text of at most MaxTokens characters that stand for a token each
MaxTokens == 3

TokenCharacters == {"1", "x", "m", "(", ")", ",", "+", "$"}

CursorInputs ==
  {MaxText \o <<"(", "1", ",", " ", "x", ")", " ", "+", " ", "(", "2">>,
   NotText \o <<" ", "(", "x", " ", "<", " ", "2", ")", " ">> \o AndText \o <<" ">>
     \o MaxText \o <<"(">>,
   <<"1", " ", "+", " ", "*", " ", "2">>,
   <<"(", "1", ")", ")", " ", "3">>}
  \cup UNION {[1..n -> TokenCharacters] : n \in 0..MaxTokens}

InitCursor == InitWith(CursorInputs)

NextCursor == SetFunction \/ Evaluate \/ EvaluatorEvaluate

SpecCursor == InitCursor /\ [][NextCursor]_vars

(***************************************************************************)
(* Properties                                                              *)
(***************************************************************************)
Evaluated == last.entry # "none"
ThroughFacade == last.entry \in {"Parser.evaluate", "handle"}

\* The caller of the last evaluation observed what the result r shows.
Observed(r) ==
  /\ last.ok = r.ok
  /\ last.val = r.val
  /\ last.err = r.err
  /\ last.calls = r.ev.calls

\* C5: evaluating the empty expression text yields Boolean true and never
\* fails, through every entry point (Parser.evaluate, the handle of
\* Parser.parse, the standalone evaluate, the function compile returned).
C5_EmptyIsTrueEverywhere ==
  (Evaluated /\ input = <<>>) => (last.ok /\ last.val = Bool(TRUE))

\* C8: every invocation of the function compile(input) returned gives what an
\* independent evaluate(input, variables) gives, value or failure, and leaves
\* the shared token sequence as tokenize(input) made it.
C8_CompiledMatchesEvaluate ==
  /\ compiled.made => compiled.tokens = tokenize(input)
  /\ last.entry = "compiled" => Observed(evaluate(input, last.variables))

\* C8 witness: an invocation that found x bound returned its value after an
\* earlier invocation (the closure exists and last is one of its results).
C8_Witness ==
  /\ last.entry = "compiled"
  /\ input = XText \o <<" ", "+", " ", "1">>
  /\ XText \in DOMAIN last.variables
  /\ last.ok
  /\ last.val = NumAdd(last.variables[XText], Int2Num(1))

\* The input is one identifier that is not followed by "(".
LoneIdentifier(tokens) ==
  Len(tokens) = 2 /\ tokens[1].type = "IDENTIFIER" /\ tokens[2].type = "EOF"

\* The outcome o of an evaluation under the Constants map c resolved name.
Resolves(o, c, name) ==
  IF name \in DOMAIN o.variables THEN o.ok /\ o.val = o.variables[name]
  ELSE (name \in DOMAIN c) => (o.ok /\ o.val = c[name])

\* A step in which a facade evaluation of a lone identifier delivered a result
C9_Lookup ==
  (last' # last /\ last'.entry \in {"Parser.evaluate", "handle"}
     /\ LoneIdentifier(tokenize(input))) =>
    (consts' = consts /\ Resolves(last', consts, tokenize(input)[1].value.str))

\* Only the host's assignment changes the Constants map.
C9_ConstsStep ==
  consts' # consts =>
    (consts' = Spread(consts, [n \in {XText} |-> Int2Num(1)]) /\ last' = last)

\* C9: in the facade a name bound in Variables and Constants resolves to the
\* Variables value, a name bound in Constants only to the Constants value,
\* and an evaluation leaves the Constants map unchanged.
C9_VariablesOverlayConstants == [][C9_Lookup /\ C9_ConstsStep]_vars

\* C9 witness: x bound in both maps resolved to the Variables value.
C9_Witness ==
  /\ ThroughFacade
  /\ input = XText
  /\ XText \in DOMAIN consts
  /\ XText \in DOMAIN last.variables
  /\ last.variables[XText] # consts[XText]
  /\ last.ok
  /\ last.val = last.variables[XText]

\* The input is one identifier followed by an argument list.
CallForm(tokens) ==
  Len(tokens) > 2 /\ tokens[1].type = "IDENTIFIER" /\ tokens[2].type = "PAREN_OPEN"

UndefinedFunction(o, name) ==
  ~o.ok /\ o.err.kind = "Undefined function" /\ o.err.name = name /\ o.calls = <<>>

\* C1: an evaluation invokes only callables that are entries of the Functions
\* map; a call name(...) whose name is not a key of that map fails with
\* 'Undefined function' and invokes nothing (the standalone entry points
\* have the empty map).
C1_OnlyRegisteredCallablesInvoked ==
  Evaluated =>
    /\ \A i \in DOMAIN last.calls : last.calls[i].name \in DOMAIN last.registry
    /\ (CallForm(tokenize(input)) /\ tokenize(input)[1].value.str \notin DOMAIN last.registry)
         => UndefinedFunction(last, tokenize(input)[1].value.str)

\* C2: an identifier not followed by "(" whose exact name is not a key of the
\* merged Variables map fails with 'Undefined variable'; inherited names
\* count as absent and a dotted name is one flat key.
C2_AbsentNameIsUndefinedVariable ==
  (Evaluated /\ LoneIdentifier(tokenize(input))
     /\ tokenize(input)[1].value.str \notin DOMAIN last.environment) =>
    (~last.ok /\ last.err.kind = "Undefined variable"
       /\ last.err.name = tokenize(input)[1].value.str)

RECURSIVE WordForm(_)
\* The text with && || ! respelled and, or, not
WordForm(text) ==
  IF text = <<>> THEN <<>>
  ELSE IF IsPrefixAt(<<"&", "&">>, text, 1) THEN AndText \o WordForm(SubSeq(text, 3, Len(text)))
  ELSE IF IsPrefixAt(<<"|", "|">>, text, 1) THEN OrText \o WordForm(SubSeq(text, 3, Len(text)))
  ELSE IF Head(text) = "!" THEN NotText \o <<" ">> \o WordForm(Tail(text))
  ELSE <<Head(text)>> \o WordForm(Tail(text))

\* C3: an expression spelled with && || ! evaluates to the value of the same
\* expression spelled with and, or, not.
C3_SymbolSpellingsMatchWords ==
  Evaluated =>
    /\ last.ok = evaluate(WordForm(input), last.variables).ok
    /\ last.val = evaluate(WordForm(input), last.variables).val

IsComparison(token) == token.type = "OPERATOR" /\ token.value.str \in ComparisonOperators

\* Token i is a second comparison operator, or the operand that follows one.
SecondComparison(tokens, i) == i > 3 /\ IsComparison(tokens[i]) /\ IsComparison(tokens[i - 2])

Chained(tokens, i) ==
  SecondComparison(tokens, i) \/ (i > 4 /\ SecondComparison(tokens, i - 1))

RECURSIVE UnchainedFrom(_, _)
UnchainedFrom(tokens, i) ==
  IF i > Len(tokens) THEN <<>>
  ELSE (IF Chained(tokens, i) THEN <<>> ELSE <<tokens[i]>>) \o UnchainedFrom(tokens, i + 1)

\* The evaluation in which every a op1 b op2 c stands for a op1 b
FirstComparisonOnly(o) ==
  evaluator_evaluate(ExpressionEvaluator(UnchainedFrom(tokenize(input), 1),
                                         o.environment, o.registry))

\* C7: wherever a op1 b op2 c occurs (bare, in parentheses, as an argument)
\* the evaluation does not fail because of op2 and the subexpression has the
\* value of a op1 b: the outcome is that of the expression without op2 c.
C7_ComparisonsDoNotChain ==
  Evaluated =>
    /\ last.ok = FirstComparisonOnly(last).ok
    /\ last.val = FirstComparisonOnly(last).val
    /\ last.err.kind = FirstComparisonOnly(last).err.kind

IsLogical(token) == token.type = "IDENTIFIER" /\ token.value.str \in {OrText, AndText}

\* The input is L or R, or L and R, with one logical operator.
OneLogical(tokens) == Cardinality({i \in DOMAIN tokens : IsLogical(tokens[i])}) = 1

LogicalIndex(tokens) == CHOOSE i \in DOMAIN tokens : IsLogical(tokens[i])

LeftOperand(tokens) ==
  Append(SubSeq(tokens, 1, LogicalIndex(tokens) - 1),
         Token("EOF", Str(<<>>), tokens[LogicalIndex(tokens)].position))

RightOperand(tokens) == SubSeq(tokens, LogicalIndex(tokens) + 1, Len(tokens))

\* An operand evaluated alone in the environment of the outcome o
Operand(o, tokens) ==
  evaluator_evaluate(ExpressionEvaluator(tokens, o.environment, o.registry))

Combined(op, l, r) ==
  IF op = OrText THEN Bool(toBool(l) \/ toBool(r)) ELSE Bool(toBool(l) /\ toBool(r))

\* The outcome o of L op R, l and r being the outcomes of L and R alone
BothEvaluated(o, op, l, r) ==
  l.ok =>
    /\ o.calls = l.ev.calls \o r.ev.calls
    /\ o.ok = r.ok
    /\ r.ok => o.val = Combined(op, l.val, r.val)
    /\ ~r.ok => (o.err.kind = r.err.kind /\ o.err.name = r.err.name)

\* C6: in L or R and L and R, whatever the value of L, R is evaluated (its
\* calls are invoked after those of L, its failure is raised) and the result
\* is the Boolean combination of the two coerced operands.
C6_NoShortCircuit ==
  (Evaluated /\ OneLogical(tokenize(input))) =>
    BothEvaluated(last, tokenize(input)[LogicalIndex(tokenize(input))].value.str,
                  Operand(last, LeftOperand(tokenize(input))),
                  Operand(last, RightOperand(tokenize(input))))

\* C6 witness: true or max(2) has called max although the left operand
\* decides the result.
C6_Witness ==
  /\ ThroughFacade
  /\ input = TrueText \o <<" ">> \o OrText \o <<" ">> \o MaxText \o <<"(", "2", ")">>
  /\ last.ok
  /\ last.val = Bool(TRUE)
  /\ last.calls = <<[name |-> MaxText, args |-> <<Int2Num(2)>>]>>

\* The tokens emitted before the character at position p (from 0)
Before(tokens, p) == {i \in DOMAIN tokens : tokens[i].position < p}

PreviousType(tokens, p) ==
  IF Before(tokens, p) = {} THEN "absent" ELSE tokens[Cardinality(Before(tokens, p))].type

\* The "-" at position p of chars is followed by a digit and preceded by no
\* token, an open parenthesis, an operator or a comma.
Fusible(chars, tokens, p) ==
  /\ p + 2 <= Len(chars)
  /\ chars[p + 2] \in Digits
  /\ PreviousType(tokens, p) \in {"absent", "PAREN_OPEN", "OPERATOR", "COMMA"}

\* The "-" at position p went into a negated Number token.
Fused(tokens, p) ==
  \E i \in DOMAIN tokens :
    /\ tokens[i].type = "NUMBER"
    /\ tokens[i].position = p + 1
    /\ tokens[i].value.t = "number"
    /\ tokens[i].value.sg = -1

\* The "-" at position p is an Operator token of its own.
Binary(tokens, p) ==
  \E i \in DOMAIN tokens :
    /\ tokens[i].type = "OPERATOR"
    /\ tokens[i].position = p
    /\ tokens[i].value = Str(<<"-">>)

MinusPositions(chars) == {p \in 0..(Len(chars) - 1) : chars[p + 1] = "-"}

FusedExactlyWhenFusible(chars, tokens) ==
  \A p \in MinusPositions(chars) :
    IF Fusible(chars, tokens, p)
    THEN Fused(tokens, p) /\ ~Binary(tokens, p)
    ELSE Binary(tokens, p) /\ ~Fused(tokens, p)

\* C10: a "-" is fused with the number after it into one negated Number
\* token exactly when a digit follows it and the previous token is absent,
\* "(", an operator or a comma; otherwise it is the Operator "-"; so 5-3
\* and (-3) + 5 both evaluate to 2.
C10_NegativeNumberFusion ==
  /\ compiled.made => FusedExactlyWhenFusible(trim(input), compiled.tokens)
  /\ (last.entry = "compiled" /\ input \in {FiveMinusThree, MinusThreePlusFive}) =>
       (last.ok /\ last.val = Int2Num(2))

\* C10 witness: (-3) + 5 was compiled with -3 as one token and evaluated to 2.
C10_Witness ==
  /\ input = MinusThreePlusFive
  /\ last.entry = "compiled"
  /\ compiled.tokens[2] = Token("NUMBER", Int2Num(-3), 2)
  /\ last.val = Int2Num(2)

(***************************************************************************)
(* The reference parse: an expression is split at its last operator of the *)
(* lowest level outside parentheses; the levels are 1 or, 2 and, 3 not,    *)
(* 4 one comparison, 5 + -, 6 * / %, 7 primary.                            *)
(***************************************************************************)
LevelOf(token) ==
  CASE token.type = "IDENTIFIER" /\ token.value.str = OrText -> 1
    [] token.type = "IDENTIFIER" /\ token.value.str = AndText -> 2
    [] token.type = "IDENTIFIER" /\ token.value.str = NotText -> 3
    [] token.type = "OPERATOR" /\ token.value.str \in ComparisonOperators -> 4
    [] token.type = "OPERATOR" /\ token.value.str \in {<<"+">>, <<"-">>} -> 5
    [] token.type = "OPERATOR" /\ token.value.str \in {<<"*">>, <<"/">>, <<"%">>} -> 6
    [] OTHER -> 0

\* The parentheses open before token k, counted from token lo
Depth(T, lo, k) ==
  Cardinality({i \in lo..(k - 1) : T[i].type = "PAREN_OPEN"})
    - Cardinality({i \in lo..(k - 1) : T[i].type = "PAREN_CLOSE"})

SplitPoints(T, lo, hi, level) ==
  {k \in lo..hi : LevelOf(T[k]) = level /\ Depth(T, lo, k) = 0}

Last(S) == CHOOSE k \in S : \A j \in S : j <= k

\* T[lo..hi] is one pair of parentheses around an expression.
Parenthesized(T, lo, hi) ==
  /\ T[lo].type = "PAREN_OPEN"
  /\ T[hi].type = "PAREN_CLOSE"
  /\ \A k \in (lo + 1)..hi : Depth(T, lo, k) >= 1
  /\ Depth(T, lo, hi) = 1

NotWellFormed == [wf |-> FALSE, ok |-> FALSE, val |-> Undefined]
Valued(val) == [wf |-> TRUE, ok |-> TRUE, val |-> val]
Failed == [wf |-> TRUE, ok |-> FALSE, val |-> Undefined]

OperatorValue(op, l, r) ==
  CASE op = OrText -> Bool(toBool(l) \/ toBool(r))
    [] op = AndText -> Bool(toBool(l) /\ toBool(r))
    [] op \in ComparisonOperators -> Bool(compare(l, op, r))
    [] op = <<"+">> -> NumAdd(toNumber(l), toNumber(r))
    [] op = <<"-">> -> NumSub(toNumber(l), toNumber(r))
    [] op = <<"*">> -> NumMul(toNumber(l), toNumber(r))
    [] op = <<"/">> -> NumDiv(toNumber(l), toNumber(r))
    [] op = <<"%">> -> NumMod(toNumber(l), toNumber(r))

Joined(op, l, r) ==
  IF ~l.wf \/ ~r.wf THEN NotWellFormed
  ELSE IF ~l.ok \/ ~r.ok THEN Failed
  ELSE Valued(OperatorValue(op, l.val, r.val))

Inverted(r) ==
  IF ~r.wf THEN NotWellFormed
  ELSE IF ~r.ok THEN Failed
  ELSE Valued(Bool(~toBool(r.val)))

Operand7(token, env) ==
  IF token.type \in {"NUMBER", "STRING", "BOOLEAN"} THEN Valued(token.value)
  ELSE IF token.type = "IDENTIFIER" /\ LevelOf(token) = 0
  THEN (IF token.value.str \in DOMAIN env THEN Valued(env[token.value.str]) ELSE Failed)
  ELSE NotWellFormed

RECURSIVE Reference(_, _, _, _, _)
\* T[lo..hi] split at token k of a left-associative level
SplitAt(T, env, lo, hi, level, k) ==
  Joined(T[k].value.str, Reference(T, env, lo, k - 1, level),
         Reference(T, env, k + 1, hi, level + 1))

\* T[lo..hi] at a left-associative level, S being its split points
Associative(T, env, lo, hi, level, S) ==
  IF S = {} THEN Reference(T, env, lo, hi, level + 1)
  ELSE SplitAt(T, env, lo, hi, level, Last(S))

\* T[lo..hi] at the comparison level, S being its split points
OneComparison(T, env, lo, hi, S) ==
  IF S = {} THEN Reference(T, env, lo, hi, 5)
  ELSE IF Cardinality(S) > 1 THEN NotWellFormed
  ELSE Joined(T[Last(S)].value.str, Reference(T, env, lo, Last(S) - 1, 5),
              Reference(T, env, Last(S) + 1, hi, 5))

Reference(T, env, lo, hi, level) ==
  IF lo > hi THEN NotWellFormed
  ELSE IF level \in {1, 2, 5, 6}
  THEN Associative(T, env, lo, hi, level, SplitPoints(T, lo, hi, level))
  ELSE IF level = 3
  THEN IF LevelOf(T[lo]) = 3 THEN Inverted(Reference(T, env, lo + 1, hi, 3))
       ELSE Reference(T, env, lo, hi, 4)
  ELSE IF level = 4 THEN OneComparison(T, env, lo, hi, SplitPoints(T, lo, hi, 4))
  ELSE IF lo = hi THEN Operand7(T[lo], env)
  ELSE IF Parenthesized(T, lo, hi) THEN Reference(T, env, lo + 1, hi - 1, 1)
  ELSE NotWellFormed

\* The reference parse of the tokens T without their EOF in the environment env
ReferenceOf(T, env) == Reference(T, env, 1, Len(T) - 1, 1)

\* The outcome o is that of the reference parse r, when there is one.
Agrees(o, r) == r.wf => (o.ok = r.ok /\ o.val = r.val)

ExampleValue(text) ==
  CASE text = TwoPlusThreeTimesFour -> Int2Num(14)
    [] text = TwoPlusThreeInParensTimesFour -> Int2Num(20)
    [] text = FalseOrTrueAndTrue -> Bool(TRUE)
    [] text = NotFalseAndTrue -> Bool(TRUE)
    [] text = HundredMinusFiftyMinusTwentyFive -> Int2Num(25)
    [] text = HundredByTenByTwo -> Int2Num(5)

\* C4: the result of a well-formed expression is the value of its reference
\* parse (levels or, and, not, one comparison, + -, * / %, primary; equal
\* levels associate to the left; a parenthesized subexpression is a unit),
\* and the six example expressions have the stated values.
C4_PrecedenceAndAssociativity ==
  /\ Evaluated => Agrees(last, ReferenceOf(tokenize(input), last.environment))
  /\ (Evaluated /\ input \in PrecedenceExamples) =>
       (last.ok /\ last.val = ExampleValue(input))

\* C4 witness: 7 - 3 - x with x = 2 gave (7 - 3) - 2.
C4_Witness ==
  /\ Evaluated
  /\ input = <<"7", " ", "-", " ", "3", " ", "-", " ">> \o XText
  /\ XText \in DOMAIN last.environment
  /\ last.environment[XText] = Int2Num(2)
  /\ ReferenceOf(tokenize(input), last.environment).wf
  /\ last.ok
  /\ last.val = Int2Num(2)

\* The opening parentheses of the text that have no closing one
Unclosed(text) ==
  Cardinality({i \in DOMAIN text : text[i] = "("})
    - Cardinality({i \in DOMAIN text : text[i] = ")"})

RECURSIVE Closers(_)
Closers(n) == IF n <= 0 THEN <<>> ELSE <<")">> \o Closers(n - 1)

\* The text with its missing closing parentheses put back at the end
Completed(text) == text \o Closers(Unclosed(text))

\* The evaluation of a text in the environment of the outcome o
InEnvironmentOf(o, text) ==
  evaluator_evaluate(ExpressionEvaluator(tokenize(text), o.environment, o.registry))

\* The outcome o has the value, the failure and the calls of the result r.
SameOutcome(o, r) ==
  /\ o.ok = r.ok
  /\ o.val = r.val
  /\ o.err.kind = r.err.kind
  /\ o.err.name = r.err.name
  /\ o.calls = r.ev.calls

\* C11: a well-formed expression from whose end closing parentheses were
\* deleted evaluates as the complete expression does: to the same value,
\* without raising when the complete expression does not raise.
C11_MissingClosersTolerated ==
  (Evaluated /\ Unclosed(input) > 0) =>
    SameOutcome(last, InEnvironmentOf(last, Completed(input)))

\* C11 witness: (((5) has yielded 5.
C11_Witness ==
  /\ Evaluated
  /\ input = <<"(", "(", "(", "5", ")">>
  /\ last.ok
  /\ last.val = Int2Num(5)

\* The input is a op b with single-token operands and an operator of ops.
BinaryForm(tokens, ops) ==
  /\ Len(tokens) = 4
  /\ tokens[2].type = "OPERATOR"
  /\ tokens[2].value.str \in ops
  /\ Operand7(tokens[1], last.environment).ok
  /\ Operand7(tokens[3], last.environment).ok

\* The coercion stated for operands: a Number unchanged, true and false 1
\* and 0, a string its parsed number or 0, anything else 0
Coerced(v) ==
  CASE v.t = "number" -> v
    [] v.t = "boolean" -> IF v.b THEN Int2Num(1) ELSE Int2Num(0)
    [] v.t = "string" -> IF IsNaN(parseFloat(v.str)) THEN Int2Num(0) ELSE parseFloat(v.str)
    [] OTHER -> Int2Num(0)

Computed(op, l, r) ==
  CASE op = <<"+">> -> NumAdd(l, r)
    [] op = <<"-">> -> NumSub(l, r)
    [] op = <<"*">> -> NumMul(l, r)
    [] op = <<"/">> -> NumDiv(l, r)
    [] op = <<"%">> -> NumMod(l, r)

\* The outcome o of l op r is the Number computed from the coerced operands.
ArithmeticOf(o, op, l, r) ==
  /\ o.ok
  /\ o.val.t = "number"
  /\ o.val = Computed(op, Coerced(l), Coerced(r))

TwoPlusThreeQuoted == Quoted(<<"2">>) \o <<" ", "+", " ">> \o Quoted(<<"3">>)
APlusBQuoted == Quoted(<<"a">>) \o <<" ", "+", " ">> \o Quoted(<<"b">>)

\* C12: + - * / % coerce both operands to Number before computing, so the
\* result is a Number and + never concatenates: "2" + "3" is 5 and
\* "a" + "b" is 0.
C12_ArithmeticCoercesOperands ==
  /\ (Evaluated /\ BinaryForm(tokenize(input), ArithmeticTexts)) =>
       ArithmeticOf(last, tokenize(input)[2].value.str,
                    Operand7(tokenize(input)[1], last.environment).val,
                    Operand7(tokenize(input)[3], last.environment).val)
  /\ (Evaluated /\ input = TwoPlusThreeQuoted) => last.val = Int2Num(5)
  /\ (Evaluated /\ input = APlusBQuoted) => last.val = Int2Num(0)

\* C12 witness: "2" + "3" has yielded the Number 5.
C12_Witness ==
  /\ Evaluated
  /\ input = TwoPlusThreeQuoted
  /\ last.ok
  /\ last.val = Int2Num(5)

Ordered(op, l, r) ==
  CASE op = <<">">> -> NumLt(r, l)
    [] op = <<"<">> -> NumLt(l, r)
    [] op = <<">", "=">> -> NumLt(r, l) \/ NumEq(l, r)
    [] op = <<"<", "=">> -> NumLt(l, r) \/ NumEq(l, r)

\* Every ordering comparison is that of the coerced operands.
OrderingCoerces ==
  (Evaluated /\ BinaryForm(tokenize(input), OrderingTexts)) =>
    /\ last.ok
    /\ last.val = Bool(Ordered(tokenize(input)[2].value.str,
                               Coerced(Operand7(tokenize(input)[1], last.environment).val),
                               Coerced(Operand7(tokenize(input)[3], last.environment).val)))

BAfterA == Quoted(<<"b">>) \o <<" ", ">", " ">> \o Quoted(<<"a">>)
TenAfterNine == Quoted(<<"1", "0">>) \o <<" ", ">", " ">> \o Quoted(<<"9">>)

\* C13: > < >= <= coerce both operands through toNumber and are never
\* lexicographic: "b" > "a" is false and "10" > "9" is false.
C13_OrderingCoercesTenNotAfterNine ==
  /\ OrderingCoerces
  /\ (Evaluated /\ input = BAfterA) => (last.ok /\ last.val = Bool(FALSE))
  /\ (Evaluated /\ input = TenAfterNine) => (last.ok /\ last.val = Bool(FALSE))

\* C13 (amended): > < >= <= coerce both operands through toNumber and are
\* never lexicographic: "b" > "a" is false (0 > 0) and "10" > "9" is true
\* (10 > 9), where the order of the strings would give false.
C13_OrderingCoercesNumerically ==
  /\ OrderingCoerces
  /\ (Evaluated /\ input = BAfterA) => (last.ok /\ last.val = Bool(FALSE))
  /\ (Evaluated /\ input = TenAfterNine) => (last.ok /\ last.val = Bool(TRUE))

\* C13 witness: "10" > "9" has yielded true.
C13_Witness ==
  /\ Evaluated
  /\ input = TenAfterNine
  /\ last.ok
  /\ last.val = Bool(TRUE)

\* The error e is the failure u wrapped once with the expression text.
Wraps(e, u, expression) ==
  /\ e.wrapped
  /\ e.expression = expression
  /\ e.kind = u.kind
  /\ e.name = u.name
  /\ e.type = u.type
  /\ e.position = u.position

\* The facade outcome o, r being the result of tokenizing and evaluating
FailureWrapped(o, r) ==
  /\ o.ok = r.ok
  /\ ~r.ok => (Wraps(o.err, r.err, input) /\ o.val = Undefined)

\* C14: every failure of tokenizing or evaluating a non-empty expression in
\* the facade reaches the caller as one error that carries the expression
\* text and the underlying failure; no failure is swallowed or escapes
\* unwrapped, and a failed evaluation returns no value.
C14_FacadeWrapsEveryFailure ==
  (ThroughFacade /\ input # <<>>) => FailureWrapped(last, InEnvironmentOf(last, input))

\* C14 witness: the undefined variable y reached the caller of the facade
\* wrapped with the expression text.
C14_Witness ==
  /\ ThroughFacade
  /\ input = YText
  /\ ~last.ok
  /\ last.err.wrapped
  /\ last.err.kind = "Undefined variable"
  /\ last.err.expression = YText

TokenTypes ==
  {"NUMBER", "STRING", "BOOLEAN", "IDENTIFIER", "OPERATOR", "PAREN_OPEN", "PAREN_CLOSE",
   "COMMA", "EOF"}

\* One end-of-input token, at the last index
EndsWithOneEOF(tokens) ==
  /\ Len(tokens) >= 1
  /\ \A i \in DOMAIN tokens : tokens[i].type \in TokenTypes
  /\ \A i \in DOMAIN tokens : tokens[i].type = "EOF" <=> i = Len(tokens)

\* A scan step begun at any position of the text ends beyond it.
EveryStepAdvances(chars) ==
  \A p \in 0..(Len(chars) - 1) :
    /\ ScanToken([input |-> chars, position |-> p], <<>>).tk.position > p
    /\ ScanToken([input |-> chars, position |-> p], <<>>).tk.position <= Len(chars)

\* C15: tokenize terminates on every input: each scan step advances by at
\* least one character, and the token sequence returned has exactly one
\* end-of-input token, at its last index.
C15_TokenizeEndsWithOneEOF ==
  compiled.made => (EndsWithOneEOF(compiled.tokens) /\ EveryStepAdvances(trim(input)))

\* C15 witness: an unknown character and an unterminated string were
\* tokenized into the string and the end-of-input token.
C15_Witness ==
  /\ compiled.made
  /\ input = <<"&", "'", "a">>
  /\ compiled.tokens = <<Token("STRING", Str(<<"a">>), 1), Token("EOF", Str(<<>>), 3)>>

\* A step in which the facade delivered the result of an evaluation
FacadeStep == last' # last /\ last'.entry \in {"Parser.evaluate", "handle"}

\* The evaluation saw the registries as they were when it started: a call
\* of a name registered then does not fail as undefined, and a constant
\* bound then and not overridden is the value of its name.
SeenFromStart ==
  /\ (CallForm(tokenize(input)) /\ tokenize(input)[1].value.str \in DOMAIN functions) =>
       ~(last'.err.kind = "Undefined function"
           /\ last'.err.name = tokenize(input)[1].value.str)
  /\ LoneIdentifier(tokenize(input)) =>
       Resolves(last', consts, tokenize(input)[1].value.str)

\* The evaluation called only what was registered when it started.
NothingSeenMidway ==
  \A i \in DOMAIN last'.calls : last'.calls[i].name \in DOMAIN functions

\* C16: an evaluation observes every mutation of Functions and Constants
\* made before it started, also through a handle made earlier, and none
\* made while it is in progress by a callable it invokes.
C16_RegistryFixedDuringEvaluation ==
  [][FacadeStep => (SeenFromStart /\ NothingSeenMidway)]_vars

\* The limit the recursion depth is held against, in calls of parseOr and
\* parseNot that have not returned; the inputs nest deeper.
RecursionLimit == 4

\* C17: the nesting depth of the evaluator's recursive calls never exceeds
\* a fixed limit, whatever the nesting depth of the expression.
C17_RecursionDepthLimited == Evaluated => last.deepest <= RecursionLimit

RECURSIVE RunEnd(_, _)
\* The position after the run of digits and dots that holds position p
RunEnd(chars, p) ==
  IF p < Len(chars) /\ (chars[p + 1] \in Digits \/ chars[p + 1] = ".")
  THEN RunEnd(chars, p + 1)
  ELSE p

\* The run of digits and dots at the start of the text is the first token,
\* a Number, and the next token starts after the run.
LeadingRunIsOneNumber(chars, tokens) ==
  /\ tokens[1].type = "NUMBER"
  /\ tokens[1].position = 0
  /\ tokens[2].position >= RunEnd(chars, 0)

\* C18: a maximal run of digits and dots that starts a token, a run that
\* begins with a dot included, is emitted as one Number token covering the
\* whole run; no character of it is dropped or put in another token.
C18_DigitDotRunIsOneNumber ==
  (compiled.made /\ RunEnd(trim(input), 0) > 0) =>
    LeadingRunIsOneNumber(trim(input), compiled.tokens)

RECURSIVE DotsIn(_, _)
\* The number of dots among the first n characters
DotsIn(chars, n) ==
  IF n = 0 THEN 0
  ELSE DotsIn(chars, n - 1) + (IF chars[n] = "." THEN 1 ELSE 0)

RECURSIVE DotAfter(_, _)
\* The index of the first dot after index i
DotAfter(chars, i) ==
  IF chars[i + 1] = "." THEN i + 1 ELSE DotAfter(chars, i + 1)

RECURSIVE NatOf(_, _, _)
\* The natural number written by the digits at indices lo..hi
NatOf(chars, lo, hi) ==
  IF hi < lo THEN 0
  ELSE NatOf(chars, lo, hi - 1) * 10 + DigitVal(chars[hi])

\* The decimal written before the second dot: whole part before the first
\* dot at index d1, fraction between it and the second dot at index d2
DecimalBefore(chars, d1, d2) ==
  Num(1,
      NatOf(chars, 1, d1 - 1) * Pow10(d2 - d1 - 1) + NatOf(chars, d1 + 1, d2 - 1),
      Pow10(d2 - d1 - 1))

ValueBeforeSecondDot(chars, d1) == DecimalBefore(chars, d1, DotAfter(chars, d1))

\* A literal that starts the text at a digit and holds two dots or more
ManyDotted(chars) ==
  /\ Len(chars) > 0
  /\ chars[1] \in Digits
  /\ DotsIn(chars, RunEnd(chars, 0)) >= 2

\* The literal is the first token, a Number over the whole run
OneNumberOverRun(chars, tokens) ==
  /\ tokens[1].type = "NUMBER"
  /\ tokens[1].position = 0
  /\ tokens[2].position >= RunEnd(chars, 0)

ManyDottedCompiled == compiled.made /\ ManyDotted(trim(input))

\* C19 as stated: a literal with more than one dot is one Number token
\* whose value is NaN.
C19_ManyDottedLiteralIsNaN ==
  ManyDottedCompiled =>
    /\ OneNumberOverRun(trim(input), compiled.tokens)
    /\ IsNaN(compiled.tokens[1].value)

\* C19: a literal with more than one dot is tokenized without failing into
\* one Number token whose value is the decimal written before the second
\* dot (6/5 for 1.2.3, 1 for 1..2), never NaN.
C19_ManyDottedLiteralIsItsPrefix ==
  ManyDottedCompiled =>
    /\ OneNumberOverRun(trim(input), compiled.tokens)
    /\ compiled.tokens[1].value = ValueBeforeSecondDot(trim(input), DotAfter(trim(input), 0))
    /\ ~IsNaN(compiled.tokens[1].value)

C19_Witness ==
  /\ compiled.made
  /\ input = OneTwoThreeDotted
  /\ compiled.tokens[1].value = Num(1, 6, 5)
  /\ Len(compiled.tokens) = 2

FailureKinds == {"Undefined variable", "Undefined function", "Unexpected token"}

\* The types of the tokens Primary accepts
PrimaryTypes == {"NUMBER", "STRING", "BOOLEAN", "IDENTIFIER", "PAREN_OPEN"}

\* The failure e is of one of the three kinds, Unexpected token only at a
\* token Primary does not accept.
OfThreeKinds(e) ==
  /\ e.kind \in FailureKinds
  /\ e.kind = "Unexpected token" => e.type \notin PrimaryTypes

\* The outcome o of an expression that ends in unconsumed tokens is the
\* outcome of the expression without them.
TrailingTokensIgnored(o) ==
  \A b \in FallbackBases, t \in Trailers :
    input = b \o t => SameOutcome(o, InEnvironmentOf(o, b))

\* Division and modulo by zero and an unparseable numeric string
SilentBases ==
  {<<"1", " ", "/", " ", "0">>, <<"1", " ", "%", " ", "0">>,
   Quoted(<<"a">>) \o <<" ", "*", " ", "2">>}

Silent(o) ==
  \A b \in SilentBases, t \in Trailers : input = b \o t => o.ok

\* C20: when no registered callable raises, an evaluation fails only with
\* Undefined variable, Undefined function or Unexpected token (the last only
\* at a token Primary does not accept); division and modulo by zero,
\* unparseable numeric strings, a left-over closing parenthesis and tokens
\* left unconsumed never fail, and the value of the completed top-level
\* parse is returned.
C20_OnlyThreeFailureKinds ==
  Evaluated =>
    /\ ~last.ok => OfThreeKinds(last.err)
    /\ Silent(last)
    /\ TrailingTokensIgnored(last)

RECURSIVE ArgumentsFrom(_, _, _, _, _)
\* The arguments as[i..] evaluated one by one in the environment of the
\* outcome o, after the values vals and the calls calls of as[1..i-1]: the
\* values and the calls in source order, or the first failure.
ArgumentEvaluated(o, as, i, vals, calls, r) ==
  IF ~r.ok THEN [ok |-> FALSE, vals |-> vals, calls |-> calls \o r.ev.calls, err |-> r.err]
  ELSE ArgumentsFrom(o, as, i + 1, Append(vals, r.val), calls \o r.ev.calls)

ArgumentsFrom(o, as, i, vals, calls) ==
  IF i > Len(as) THEN [ok |-> TRUE, vals |-> vals, calls |-> calls, err |-> NoError]
  ELSE ArgumentEvaluated(o, as, i, vals, calls, InEnvironmentOf(o, as[i]))

\* The outcome o of the call f(...), a being what the arguments gave
CallOutcome(o, f, a) ==
  IF ~a.ok
  THEN ~o.ok /\ o.err.kind = a.err.kind /\ o.err.name = a.err.name /\ o.calls = a.calls
  ELSE IF f \in DOMAIN o.registry
  THEN /\ o.ok
       /\ o.calls = Append(a.calls, [name |-> f, args |-> a.vals])
       /\ o.val = MathMax(a.vals)
  ELSE /\ ~o.ok
       /\ o.err.kind = "Undefined function"
       /\ o.err.name = f
       /\ o.calls = a.calls

\* C21: in a call f(a1, ..., an) the arguments are evaluated left to right,
\* each once, before f is looked up; the callable receives the values in
\* source order whatever their number; the first failure in token order
\* wins, so a failing or calling argument of an unregistered f fails or
\* calls before, and instead of, the Undefined function failure.
C21_ArgumentsBeforeLookup ==
  Evaluated =>
    \A f \in CalleeTexts, as \in ArgumentSeqs :
      input = CallText(f, as) =>
        CallOutcome(last, f, ArgumentsFrom(last, as, 1, <<>>, <<>>))

\* C21 witness: nope(max(2), y) has called max and failed at y
C21_Witness ==
  /\ Evaluated
  /\ input = CallText(NopeText, <<MaxText \o <<"(", "2", ")">>, YText>>)
  /\ last.calls = <<[name |-> MaxText, args |-> <<Int2Num(2)>>]>>
  /\ ~last.ok
  /\ last.err.kind = "Undefined variable"
  /\ last.err.name = YText

\* The token sequence of the outcome o ends with the end-of-input token.
EndsWithEOF(o) == Len(o.tokens) > 0 /\ o.tokens[Len(o.tokens)].type = "EOF"

\* The cursor started at 0 and moved by +1 at each consumed token: the k-th
\* token consumed is the one at index k - 1, and the cursor is their number.
MovedByOne(o) ==
  /\ Len(o.consumed) = o.cursor
  /\ \A k \in DOMAIN o.consumed : o.consumed[k] = k - 1

\* No end-of-input token was consumed and the cursor is within the sequence.
StaysWithin(o) ==
  /\ \A k \in DOMAIN o.consumed : o.tokens[o.consumed[k] + 1].type # "EOF"
  /\ o.cursor <= Len(o.tokens) - 1
  /\ \A k \in DOMAIN o.primaries : o.primaries[k] <= Len(o.tokens) - 1

\* Every descent into Primary started beyond the one before it, and the last
\* one consumed a token unless the evaluation failed.
EveryDescentConsumes(o) ==
  /\ \A k \in DOMAIN o.primaries : k > 1 => o.primaries[k] > o.primaries[k - 1]
  /\ o.ok => (Len(o.primaries) > 0 /\ o.cursor > o.primaries[Len(o.primaries)])

====
